---- MODULE Spec2Model ----
(***************************************************************************)
(* cargo-check-external-types: the allow-list matcher (src/config.rs), the *)
(* error set (src/error.rs) and the rustdoc item-graph visitor             *)
(* (src/visitor.rs).                                                       *)
(*                                                                         *)
(* Strings are sequences of one-character strings, so that `find("::")`,   *)
(* slicing, joining, formatting and glob matching are computed character   *)
(* by character as the code does.                                          *)
(***************************************************************************)
EXTENDS Integers, Sequences, FiniteSets, TLC

VARIABLES
    config,           \* Visitor.config / the Config allows_type is called on
    root_crate_name,  \* Visitor.root_crate_name / allows_type's root_crate_name
    type_name,        \* matcher specification: allows_type's type_name argument
    verdict,          \* matcher specification: what allows_type returned
    index,            \* Visitor.index : Id -> Item
    paths,            \* Visitor.paths : Id -> ItemSummary.path
    errors,           \* Visitor.errors : ValidationErrors (a BTreeSet)
    unused_approve,   \* Visitor.unused_approve : HashSet<String>
    stack,            \* pending calls of the depth-first traversal, top first
    seen,             \* history: the calls the traversal has made so far
    pc,               \* "idle" | "new" | "visiting" | "done" | "failed"
                      \* | "panicked" | "overflow" | "exited"
                      \* | "context" | "printed"
    result,           \* what visit_all returned: the error set, when pc = "done"
    output_format,    \* args.output_format, once run_main reads it
    stdout,           \* the lines run_main and main have printed
    exit_code,        \* what main passes to process::exit
    contents,         \* printer specification: the cached text of the file
    error_span,       \* printer specification: the Span of the finding
    begin_end         \* printer specification: the positions of its two ends

vars == <<config, root_crate_name, type_name, verdict, index, paths, errors,
          unused_approve, stack, seen, pc, result, output_format, stdout,
          exit_code, contents, error_span, begin_end>>

\* the variables of main
main_vars == <<output_format, stdout, exit_code>>

\* the variables of the printer specification
printer_vars == <<contents, error_span, begin_end>>

----------------------------------------------------------------------------
(* Strings *)

S_sep == <<":", ":">>
S_alloc == <<"a", "l", "l", "o", "c">>
S_core == <<"c", "o", "r", "e">>
S_std == <<"s", "t", "d">>
S_r == <<"r">>
S_e == <<"e">>
S_o == <<"o">>
S_m == <<"m">>
S_f == <<"f">>
S_x == <<"x">>
S_Foo == <<"F", "o", "o">>
S_Bar == <<"B", "a", "r">>
S_Vec == <<"V", "e", "c">>
S_hid == <<"h", "i", "d">>

\* the index of the first occurrence of "::" in s, or 0: str::find("::")
find_sep(s) ==
    LET hits == {i \in 1..(Len(s) - 1) : s[i] = ":" /\ s[i + 1] = ":"}
    IN  IF hits = {} THEN 0 ELSE CHOOSE i \in hits : \A j \in hits : i <= j

\* &type_name[0..type_name.find("::").unwrap_or(type_name.len())]
type_crate_name_of(s) ==
    IF find_sep(s) = 0 THEN s ELSE SubSeq(s, 1, find_sep(s) - 1)

RECURSIVE join_sep(_)
\* path.join("::")
join_sep(segs) ==
    IF segs = <<>> THEN <<>>
    ELSE IF Len(segs) = 1 THEN segs[1]
    ELSE segs[1] \o S_sep \o join_sep(Tail(segs))

RECURSIVE split_sep(_)
\* import_source.split("::")
split_sep(s) ==
    IF find_sep(s) = 0 THEN <<s>>
    ELSE <<SubSeq(s, 1, find_sep(s) - 1)>>
             \o split_sep(SubSeq(s, find_sep(s) + 2, Len(s)))

----------------------------------------------------------------------------
(* Config::allows_type *)

RECURSIVE glob_matches(_, _)
\* WildMatch::matches: `*` matches any run of characters (the empty run and
\* path separators included), `?` exactly one character, any other character
\* itself.
glob_matches(glob, s) ==
    IF glob = <<>> THEN s = <<>>
    ELSE IF Head(glob) = "*"
         THEN glob_matches(Tail(glob), s)
                \/ (s # <<>> /\ glob_matches(glob, Tail(s)))
    ELSE IF Head(glob) = "?"
         THEN s # <<>> /\ glob_matches(Tail(glob), Tail(s))
    ELSE s # <<>> /\ Head(s) = Head(glob) /\ glob_matches(Tail(glob), Tail(s))

StdNames == <<S_alloc, S_core, S_std>>

\* match *std_name { "alloc" => allow_alloc, "core" => allow_core, "std" => allow_std }
std_allowed(cfg, std_name) ==
    IF std_name = S_alloc THEN cfg.allow_alloc
    ELSE IF std_name = S_core THEN cfg.allow_core
    ELSE cfg.allow_std

\* self.allowed_external_types.iter().filter(|glob| glob.matches(type_name)).collect()
matching_globs(cfg, name) ==
    SelectSeq(cfg.allowed_external_types, LAMBDA glob : glob_matches(glob, name))

Verdict(ok, kind, std, globs) ==
    [ok |-> ok, kind |-> kind, std |-> std, globs |-> globs]

\* a slip: an ambiguous match silently picks the first matching entry
glob_verdict_first_wins(matches) ==
    IF Len(matches) = 0 THEN Verdict(FALSE, "NoMatchFound", <<>>, <<>>)
    ELSE Verdict(TRUE, "WildcardMatch", <<>>, <<matches[1]>>)

\* the match on matches.len()
glob_verdict(matches) ==
    IF Len(matches) = 0 THEN Verdict(FALSE, "NoMatchFound", <<>>, <<>>)
    ELSE IF Len(matches) = 1 THEN Verdict(TRUE, "WildcardMatch", <<>>, matches)
    ELSE Verdict(FALSE, "DuplicateMatches", <<>>, matches)

\* a slip: a disallowed base library falls through as allowed
std_verdict_silent_pass(cfg, std_name) ==
    Verdict(TRUE, "StandardLibrary", std_name, <<>>)

\* the base-library branch
std_verdict(cfg, std_name) ==
    IF std_allowed(cfg, std_name)
    THEN Verdict(TRUE, "StandardLibrary", std_name, <<>>)
    ELSE Verdict(FALSE, "StandardLibraryNotAllowed", std_name, <<>>)

\* a slip: the base-library test comes before the root test
allows_type_std_first(cfg, root, name) ==
    LET type_crate_name == type_crate_name_of(name)
    IN  IF \E i \in 1..Len(StdNames) : StdNames[i] = type_crate_name
        THEN std_verdict(cfg, type_crate_name)
        ELSE IF type_crate_name = root
        THEN Verdict(TRUE, "RootMatch", <<>>, <<>>)
        ELSE glob_verdict(matching_globs(cfg, name))

allows_type(cfg, root, name) ==
    LET type_crate_name == type_crate_name_of(name)
    IN  IF type_crate_name = root
        THEN Verdict(TRUE, "RootMatch", <<>>, <<>>)
        ELSE IF \E i \in 1..Len(StdNames) : StdNames[i] = type_crate_name
        THEN std_verdict(cfg, type_crate_name)
        ELSE glob_verdict(matching_globs(cfg, name))

----------------------------------------------------------------------------
(* Option, Span *)

\* Option<T>: None is the empty sequence, Some(v) the one-element sequence
None == <<>>
Some(v) == <<v>>
IsSome(o) == Len(o) = 1
Unwrap(o) == o[1]

\* rustdoc_types::Span
Span(filename, line, col) ==
    [filename |-> filename, begin |-> <<line, col>>, end |-> <<line, col + 1>>]

S_lib_rs == <<"l", ".", "r", "s">>
S_none == <<"n", "o", "n", "e">>
S_colon == <<":">>
DigitChars == <<"0", "1", "2", "3", "4", "5", "6", "7", "8", "9">>

RECURSIVE to_digits(_)
\* the decimal digits of n
to_digits(n) ==
    IF n < 10 THEN <<DigitChars[n + 1]>>
    ELSE to_digits(n \div 10) \o <<DigitChars[(n % 10) + 1]>>

\* format!("{:07}", n)
pad7(n) ==
    LET d == to_digits(n)
    IN  IF Len(d) >= 7 THEN d ELSE [i \in 1..(7 - Len(d)) |-> "0"] \o d

----------------------------------------------------------------------------
(* ErrorLocation and its Display *)

\* the character U+0060, which a string of this notation cannot hold
C_backtick == "backtick"

\* an ErrorLocation without payload
Loc(kind) == [loc |-> kind, name |-> <<>>]

\* a slip: the argument's location is taken for the return value's
ArgumentNamed_as_return(name) == Loc("ReturnValue")

\* ErrorLocation::ArgumentNamed(name)
ArgumentNamed(name) == [loc |-> "ArgumentNamed", name |-> name]

D_AssocType ==
    <<"a", "s", "s", "o", "c", "i", "a", "t", "e", "d", " ", "t", "y",
      "p", "e">>
D_ClosureInput ==
    <<"c", "l", "o", "s", "u", "r", "e", " ", "i", "n", "p", "u", "t",
      " ", "o", "f">>
D_ClosureOutput ==
    <<"c", "l", "o", "s", "u", "r", "e", " ", "o", "u", "t", "p", "u",
      "t", " ", "o", "f">>
D_ConstGeneric ==
    <<"c", "o", "n", "s", "t", " ", "g", "e", "n", "e", "r", "i", "c",
      " ", "o", "f">>
D_Constant ==
    <<"c", "o", "n", "s", "t", "a", "n", "t">>
D_DynTrait ==
    <<"d", "y", "n", " ", "t", "r", "a", "i", "t", " ", "o", "f">>
D_EnumTupleEntry ==
    <<"e", "n", "u", "m", " ", "t", "u", "p", "l", "e", " ", "e", "n",
      "t", "r", "y", " ", "o", "f">>
D_GenericArg ==
    <<"g", "e", "n", "e", "r", "i", "c", " ", "a", "r", "g", " ", "o",
      "f">>
D_GenericDefaultBinding ==
    <<"g", "e", "n", "e", "r", "i", "c", " ", "d", "e", "f", "a", "u",
      "l", "t", " ", "b", "i", "n", "d", "i", "n", "g", " ", "o", "f">>
D_ImplementedTrait ==
    <<"i", "m", "p", "l", "e", "m", "e", "n", "t", "e", "d", " ", "t",
      "r", "a", "i", "t", " ", "o", "f">>
D_QualifiedSelfType ==
    <<"q", "u", "a", "l", "i", "f", "i", "e", "d", " ", "s", "e", "l",
      "f", " ", "t", "y", "p", "e">>
D_QualifiedSelfTypeAsTrait ==
    <<"q", "u", "a", "l", "i", "f", "i", "e", "d", " ", "t", "y", "p",
      "e", " ", C_backtick, "a", "s", C_backtick, " ", "t", "r", "a",
      "i", "t">>
D_ReExport ==
    <<"r", "e", "-", "e", "x", "p", "o", "r", "t", " ", "n", "a", "m",
      "e", "d">>
D_ReturnValue ==
    <<"r", "e", "t", "u", "r", "n", " ", "v", "a", "l", "u", "e", " ",
      "o", "f">>
D_Static ==
    <<"s", "t", "a", "t", "i", "c", " ", "v", "a", "l", "u", "e">>
D_StructField ==
    <<"s", "t", "r", "u", "c", "t", " ", "f", "i", "e", "l", "d", " ",
      "o", "f">>
D_TraitBound ==
    <<"t", "r", "a", "i", "t", " ", "b", "o", "u", "n", "d", " ", "o",
      "f">>
D_TypeAlias ==
    <<"t", "y", "p", "e", " ", "a", "l", "i", "a", "s", " ", "o", "f">>
D_WhereBound ==
    <<"w", "h", "e", "r", "e", " ", "b", "o", "u", "n", "d", " ", "o",
      "f">>
D_ArgumentNamedPre ==
    <<"a", "r", "g", "u", "m", "e", "n", "t", " ", "n", "a", "m", "e",
      "d", " ", C_backtick>>
D_ArgumentNamedPost ==
    <<C_backtick, " ", "o", "f">>

\* impl fmt::Display for ErrorLocation
what_display(what) ==
    CASE what.loc = "AssocType" -> D_AssocType
      [] what.loc = "ClosureInput" -> D_ClosureInput
      [] what.loc = "ClosureOutput" -> D_ClosureOutput
      [] what.loc = "ConstGeneric" -> D_ConstGeneric
      [] what.loc = "Constant" -> D_Constant
      [] what.loc = "DynTrait" -> D_DynTrait
      [] what.loc = "EnumTupleEntry" -> D_EnumTupleEntry
      [] what.loc = "GenericArg" -> D_GenericArg
      [] what.loc = "GenericDefaultBinding" -> D_GenericDefaultBinding
      [] what.loc = "ImplementedTrait" -> D_ImplementedTrait
      [] what.loc = "QualifiedSelfType" -> D_QualifiedSelfType
      [] what.loc = "QualifiedSelfTypeAsTrait" -> D_QualifiedSelfTypeAsTrait
      [] what.loc = "ReExport" -> D_ReExport
      [] what.loc = "ReturnValue" -> D_ReturnValue
      [] what.loc = "Static" -> D_Static
      [] what.loc = "StructField" -> D_StructField
      [] what.loc = "TraitBound" -> D_TraitBound
      [] what.loc = "TypeAlias" -> D_TypeAlias
      [] what.loc = "WhereBound" -> D_WhereBound
      [] what.loc = "ArgumentNamed" ->
            D_ArgumentNamedPre \o what.name \o D_ArgumentNamedPost
----------------------------------------------------------------------------
(* ValidationError, ValidationErrors *)

location_sort_key(location) ==
    IF IsSome(location)
    THEN Unwrap(location).filename \o S_colon
            \o pad7(Unwrap(location).begin[1]) \o S_colon
            \o pad7(Unwrap(location).begin[2])
    ELSE S_none

NoLoc == Loc("None")

ValidationError(kind, name, what, in_what_type, location, hidden, duplicate, key) ==
    [kind |-> kind, type_name |-> name, what |-> what,
     in_what_type |-> in_what_type, location |-> location,
     hidden_module |-> hidden, duplicate |-> duplicate, key |-> key]

\* format!("{}:{type_name}:{what}:{in_what_type}", location_sort_key(location))
full_sort_key(name, what, in_what_type, location) ==
    location_sort_key(location) \o S_colon \o name \o S_colon
        \o what_display(what) \o S_colon \o in_what_type

unapproved_external_type_ref(name, what, in_what_type, location) ==
    ValidationError("UnapprovedExternalTypeRef", name, what, in_what_type,
                    location, None, <<>>,
                    full_sort_key(name, what, in_what_type, location))

fields_stripped(path_string) ==
    ValidationError("FieldsStripped", path_string, NoLoc, <<>>, None, None,
                    <<>>, <<>>)

hidden_module(name, what, in_what_type, location, hidden) ==
    ValidationError("HiddenModule", name, what, in_what_type, location, hidden,
                    <<>>, <<>>)

hidden_item(what, in_what_type, location) ==
    ValidationError("HiddenItem", <<>>, what, in_what_type, location, None,
                    <<>>, location_sort_key(location))

unused_approval_pattern(name) ==
    ValidationError("UnusedApprovalPattern", name, NoLoc, <<>>, None, None,
                    <<>>, <<>>)

duplicate_approved(name, what, in_what_type, location, duplicate) ==
    ValidationError("DuplicateApproved", name, what, in_what_type, location,
                    None, duplicate,
                    full_sort_key(name, what, in_what_type, location))

\* ValidationError::sort_key
sort_key(e) ==
    IF e.kind \in {"UnapprovedExternalTypeRef", "DuplicateApproved"} THEN e.key
    ELSE IF e.kind \in {"FieldsStripped", "HiddenModule", "UnusedApprovalPattern"}
    THEN e.type_name
    ELSE e.key

\* a slip: an approval given twice counts as an error
level_duplicate_is_error(e) ==
    IF e.kind \in {"UnapprovedExternalTypeRef", "DuplicateApproved"}
    THEN "Error" ELSE "Warning"

\* ValidationError::level
level(e) ==
    IF e.kind = "UnapprovedExternalTypeRef" THEN "Error" ELSE "Warning"

\* impl PartialEq / Ord for ValidationError: identity is the sort key
same_error(e, f) == sort_key(e) = sort_key(f)

\* a slip: the finding added replaces the one with its key
add_last_wins(set, e) == {f \in set : ~same_error(e, f)} \cup {e}

\* ValidationErrors::add: BTreeSet::insert keeps the element it already holds
add(set, e) ==
    IF \E f \in set : same_error(e, f) THEN set ELSE set \cup {e}

----------------------------------------------------------------------------
(* Path: the traversal path of (component type, name, span) *)

Component(typ, name, span) == [typ |-> typ, name |-> name, span |-> span]

path_new(crate_name) == <<Component("Crate", crate_name, None)>>

path_push_raw(path, typ, name, span) == Append(path, Component(typ, name, span))

path_push(path, typ, item) ==
    path_push_raw(path, typ, Unwrap(item.name), item.span)

path_last_type(path) ==
    IF path = <<>> THEN None ELSE Some(path[Len(path)].typ)

path_last_span(path) ==
    IF path = <<>> THEN None ELSE path[Len(path)].span

path_to_string(path) == join_sep([i \in 1..Len(path) |-> path[i].name])

----------------------------------------------------------------------------
(* The item graph: rustdoc_types Item, ItemEnum, Type, Generics *)

Item(id, crate_id, name, span, visibility, inner) ==
    [id |-> id, crate_id |-> crate_id, name |-> name, span |-> span,
     visibility |-> visibility, inner |-> inner]

NoGenerics == [params |-> <<>>, where_predicates |-> <<>>]

\* rustdoc_types::Path: the id referred to and its optional generic arguments
RustDocPath(id, args) == [id |-> id, args |-> args]

\* Type::ResolvedPath
ResolvedPath(id, args) == [t |-> "ResolvedPath", path |-> RustDocPath(id, args)]

\* GenericArgs::AngleBracketed with type arguments only
AngleBracketed(types) ==
    [g |-> "AngleBracketed",
     args |-> [i \in 1..Len(types) |-> [a |-> "Type", type |-> types[i]]],
     constraints |-> <<>>]

RECURSIVE Flatten(_)
\* the concatenation of a sequence of sequences
Flatten(ss) == IF ss = <<>> THEN <<>> ELSE Head(ss) \o Flatten(Tail(ss))

----------------------------------------------------------------------------
(* The calls of the traversal.  A call that looks an identifier up in the  *)
(* index and descends (an item, an impl) is a frame of the stack; a type   *)
(* expression is finite data, so visiting it yields its calls in order.    *)

\* self.item(id)? followed by self.visit_item(path, item, check); module
\* iteration visits the item only when it belongs to the root crate
ItemCall(path, id, check, root_only) ==
    [op |-> "item", path |-> path, id |-> id, check |-> check,
     root_only |-> root_only]

\* one round of the loop of visit_impls
ImplCall(path, id) == [op |-> "impl", path |-> path, id |-> id]

\* self.check_external(path, what, id)
ExternalCall(path, what, id) ==
    [op |-> "check_external", path |-> path, what |-> what, id |-> id]

\* self.check_allow_type(path, what, type_name)
AllowCall(path, what, name) ==
    [op |-> "check_allow_type", path |-> path, what |-> what, name |-> name]

\* self.add_error(error)
ErrorCall(error) == [op |-> "add_error", error |-> error]

\* panic!, unreachable!, assert!
PanicCall(why) == [op |-> "panic", why |-> why]

RECURSIVE visit_type(_, _, _)
RECURSIVE visit_generic_args(_, _)
RECURSIVE visit_generic_bounds(_, _)
RECURSIVE visit_generic_param_defs(_, _)
RECURSIVE visit_fn_sig(_, _)
RECURSIVE check_rustdoc_path(_, _, _)

check_rustdoc_path(path, what, rustdoc_path) ==
    <<ExternalCall(path, what, rustdoc_path.id)>>
        \o (IF IsSome(rustdoc_path.args)
            THEN visit_generic_args(path, Unwrap(rustdoc_path.args))
            ELSE <<>>)

visit_fn_sig(path, decl) ==
    Flatten([i \in 1..Len(decl.inputs) |->
                IF i = 1 /\ decl.inputs[i][1] = <<"s", "e", "l", "f">>
                THEN <<>>
                ELSE visit_type(path, ArgumentNamed(decl.inputs[i][1]),
                                decl.inputs[i][2])])
        \o (IF IsSome(decl.output)
            THEN visit_type(path, Loc("ReturnValue"), Unwrap(decl.output))
            ELSE <<>>)

visit_type(path, what, typ) ==
    CASE typ.t = "ResolvedPath" ->
            check_rustdoc_path(path, what, typ.path)
                \o (IF IsSome(typ.path.args)
                    THEN visit_generic_args(path, Unwrap(typ.path.args))
                    ELSE <<>>)
      [] typ.t \in {"Generic", "Primitive"} -> <<>>
      [] typ.t = "Pat" -> <<PanicCall("pattern type")>>
      [] typ.t = "FunctionPointer" ->
            visit_fn_sig(path, typ.sig)
                \o visit_generic_param_defs(path, typ.generic_params)
      [] typ.t = "Tuple" ->
            Flatten([i \in 1..Len(typ.types) |->
                        visit_type(path, Loc("EnumTupleEntry"), typ.types[i])])
      [] typ.t \in {"Slice", "Array", "RawPointer", "BorrowedRef"} ->
            visit_type(path, what, typ.type)
      [] typ.t = "DynTrait" ->
            Flatten([i \in 1..Len(typ.traits) |->
                        check_rustdoc_path(path, Loc("DynTrait"),
                                           typ.traits[i].trait_)
                            \o visit_generic_param_defs(
                                   path, typ.traits[i].generic_params)])
      [] typ.t = "ImplTrait" ->
            Flatten([i \in 1..Len(typ.bounds) |->
                        IF typ.bounds[i].b = "TraitBound"
                        THEN check_rustdoc_path(path, what, typ.bounds[i].trait_)
                                \o visit_generic_param_defs(
                                       path, typ.bounds[i].generic_params)
                        ELSE <<>>])
      [] typ.t = "Infer" -> <<PanicCall("inferred type")>>
      [] typ.t = "QualifiedPath" ->
            visit_type(path, Loc("QualifiedSelfType"), typ.self_type)
                \o (IF IsSome(typ.trait_)
                    THEN check_rustdoc_path(path, Loc("QualifiedSelfTypeAsTrait"),
                                            Unwrap(typ.trait_))
                    ELSE <<>>)

visit_generic_args(path, args) ==
    IF args.g = "AngleBracketed"
    THEN Flatten([i \in 1..Len(args.args) |->
                    IF args.args[i].a = "Type"
                    THEN visit_type(path, Loc("GenericArg"), args.args[i].type)
                    ELSE <<>>])
            \o Flatten([i \in 1..Len(args.constraints) |->
                    IF args.constraints[i].binding = "Equality"
                    THEN IF args.constraints[i].term = "Type"
                         THEN visit_type(path, Loc("GenericDefaultBinding"),
                                         args.constraints[i].type)
                         ELSE <<>>
                    ELSE visit_generic_bounds(path, args.constraints[i].bounds)])
    ELSE Flatten([i \in 1..Len(args.inputs) |->
                    visit_type(path, Loc("ClosureInput"), args.inputs[i])])
            \o (IF IsSome(args.output)
                THEN visit_type(path, Loc("ClosureOutput"), Unwrap(args.output))
                ELSE <<>>)

visit_generic_bounds(path, bounds) ==
    Flatten([i \in 1..Len(bounds) |->
                IF bounds[i].b = "TraitBound"
                THEN check_rustdoc_path(path, Loc("TraitBound"), bounds[i].trait_)
                        \o visit_generic_param_defs(path, bounds[i].generic_params)
                ELSE <<>>])

visit_generic_param_defs(path, params) ==
    Flatten([i \in 1..Len(params) |->
                CASE params[i].pk = "Type" ->
                        visit_generic_bounds(path, params[i].bounds)
                            \o (IF IsSome(params[i].default)
                                THEN visit_type(path, Loc("GenericDefaultBinding"),
                                                Unwrap(params[i].default))
                                ELSE <<>>)
                  [] params[i].pk = "Const" ->
                        visit_type(path, Loc("ConstGeneric"), params[i].type)
                  [] params[i].pk = "Lifetime" -> <<>>])

visit_generics(path, generics) ==
    visit_generic_param_defs(path, generics.params)
        \o Flatten([i \in 1..Len(generics.where_predicates) |->
               LET pred == generics.where_predicates[i]
               IN  CASE pred.w = "BoundPredicate" ->
                          visit_generic_bounds(path, pred.bounds)
                              \o visit_generic_param_defs(path, pred.generic_params)
                     [] pred.w = "LifetimePredicate" -> <<>>
                     [] pred.w = "EqPredicate" ->
                          visit_type(path, Loc("WhereBound"), pred.lhs)])

----------------------------------------------------------------------------
(* Visitor: lookups *)

\* package.root, the identifier of the crate's root item
RootId == 0

\* Visitor::root_crate_id
root_crate_id == index[RootId].crate_id

\* Visitor::item(id) is Ok
in_index(id) == id \in DOMAIN index

\* Visitor::item_summary(id) is Some
in_paths(id) == id \in DOMAIN paths

\* Visitor::type_name(id), when the identifier has an item summary
type_name_of(id) == join_sep(paths[id])

\* Visitor::in_root_crate
in_root_crate(id) == in_index(id) /\ index[id].crate_id = root_crate_id

\* whether any item of the index bears the name
name_is_indexed(part) ==
    \E id \in DOMAIN index :
        IsSome(index[id].name) /\ Unwrap(index[id].name) = part

\* infer_first_hidden_module_in_import_source
infer_first_hidden_module_in_import_source(import_source) ==
    LET parts == split_sep(import_source)
        hidden == {i \in 1..Len(parts) : ~name_is_indexed(parts[i])}
    IN  IF hidden = {} THEN None
        ELSE Some(parts[CHOOSE i \in hidden : \A j \in hidden : i <= j])

----------------------------------------------------------------------------
(* Visitor: items *)

\* a slip: the context of a default-visibility item is never consulted
is_public_declared_only(path, item) == item.visibility = "Public"

\* a slip: every item of default visibility counts as public
is_public_by_default(path, item) == item.visibility \in {"Public", "Default"}

\* Visitor::is_public
is_public(path, item) ==
    IF item.visibility = "Public" THEN TRUE
    ELSE IF item.visibility = "Default"
    THEN LET last == path_last_type(path)
         IN  \/ item.inner.kind = "Variant" /\ last = Some("Enum")
             \/ item.inner.kind = "StructField" /\ last = Some("EnumVariant")
             \/ item.inner.kind = "AssocType" /\ IsSome(last)
             \/ last = Some("Trait")
    ELSE FALSE

\* a slip: the children are visited without the visibility check
visit_children_assume_public(path, ids) ==
    [i \in 1..Len(ids) |-> ItemCall(path, ids[i], "AssumePublic", FALSE)]

\* the calls `for id in ids { self.visit_item(path, self.item(id)?, Default)? }`
visit_children(path, ids) ==
    [i \in 1..Len(ids) |-> ItemCall(path, ids[i], "Default", FALSE)]

\* Visitor::visit_impls
visit_impls(path, impl_ids) ==
    [i \in 1..Len(impl_ids) |-> ImplCall(path, impl_ids[i])]

\* the Some entries of a list of optional identifiers: iter().flatten()
flatten_ids(members) ==
    Flatten([i \in 1..Len(members) |->
                IF IsSome(members[i]) THEN <<Unwrap(members[i])>> ELSE <<>>])

\* a slip: the stripped-fields warning is not raised
visit_struct_no_warning(path, strct) ==
    visit_generics(path, strct.generics)
        \o visit_children(path,
              IF strct.struct_kind = "Unit" THEN <<>>
              ELSE IF strct.struct_kind = "Tuple" THEN flatten_ids(strct.fields)
              ELSE strct.fields)
        \o visit_impls(path, strct.impls)

\* Visitor::visit_struct
visit_struct(path, strct) ==
    visit_generics(path, strct.generics)
        \o (IF strct.struct_kind = "Plain" /\ strct.has_stripped_fields
            THEN <<ErrorCall(fields_stripped(path_to_string(path)))>>
            ELSE <<>>)
        \o visit_children(path,
              IF strct.struct_kind = "Unit" THEN <<>>
              ELSE IF strct.struct_kind = "Tuple" THEN flatten_ids(strct.fields)
              ELSE strct.fields)
        \o visit_impls(path, strct.impls)

\* Visitor::visit_union
visit_union(path, unn) ==
    visit_generics(path, unn.generics)
        \o visit_children(path, unn.fields)
        \o visit_impls(path, unn.impls)

\* Visitor::visit_trait
visit_trait(path, trt) ==
    visit_generics(path, trt.generics)
        \o visit_generic_bounds(path, trt.bounds)
        \o visit_children(path, trt.items)

\* Visitor::visit_variant
visit_variant(path, variant) ==
    CASE variant.variant_kind = "Plain" -> <<>>
      [] variant.variant_kind = "Tuple" ->
            visit_children(path, flatten_ids(variant.fields))
      [] variant.variant_kind = "Struct" ->
            IF variant.has_stripped_fields
            THEN <<PanicCall("fields_stripped should always be false")>>
            ELSE visit_children(path, variant.fields)

\* Visitor::visit_item, the ItemEnum::Use arm
visit_use(path, item) ==
    LET use_ == item.inner
        p == path_push_raw(path, "ReExport", use_.name, item.span)
    IN  IF ~IsSome(use_.id) THEN <<>>
        ELSE IF in_index(Unwrap(use_.id))
        THEN IF in_root_crate(Unwrap(use_.id))
             THEN <<ItemCall(p, Unwrap(use_.id), "AssumePublic", FALSE)>>
             ELSE <<>>
        ELSE IF in_paths(Unwrap(use_.id))
        THEN <<AllowCall(p, Loc("ReExport"), type_name_of(Unwrap(use_.id)))>>
        ELSE <<ErrorCall(hidden_module(
                  use_.name, Loc("ReExport"), path_to_string(p),
                  path_last_span(p),
                  infer_first_hidden_module_in_import_source(use_.source)))>>

\* Visitor::visit_item, the ItemEnum::Module arm
visit_module(path, item) ==
    LET p == IF item.inner.is_crate THEN path
             ELSE path_push(path, "Module", item)
    IN  [i \in 1..Len(item.inner.items) |->
            ItemCall(p, item.inner.items[i], "Default", TRUE)]

\* Visitor::visit_item, past the visibility check
visit_item_inner(path, item) ==
    LET inner == item.inner
        kind == inner.kind
    IN  CASE kind = "AssocConst" ->
               visit_type(path_push(path, "AssocConst", item),
                          Loc("StructField"), inner.type)
          [] kind = "AssocType" ->
               LET p == path_push(path, "AssocType", item)
               IN  (IF IsSome(inner.type)
                    THEN visit_type(p, Loc("AssocType"), Unwrap(inner.type))
                    ELSE <<>>)
                     \o visit_generic_bounds(p, inner.bounds)
                     \o visit_generics(p, inner.generics)
          [] kind = "Constant" ->
               visit_type(path_push(path, "Constant", item),
                          Loc("Constant"), inner.type)
          [] kind = "Enum" ->
               LET p == path_push(path, "Enum", item)
               IN  visit_generics(p, inner.generics)
                     \o visit_impls(p, inner.impls)
                     \o visit_children(p, inner.variants)
          [] kind = "ExternType" -> <<PanicCall("extern_types")>>
          [] kind = "Function" ->
               LET p == path_push(path, "Function", item)
               IN  visit_fn_sig(p, inner.sig) \o visit_generics(p, inner.generics)
          [] kind = "Use" -> visit_use(path, item)
          [] kind = "Module" -> visit_module(path, item)
          [] kind = "Static" ->
               visit_type(path_push(path, "Static", item),
                          Loc("Static"), inner.type)
          [] kind = "Struct" ->
               visit_struct(path_push(path, "Struct", item), inner)
          [] kind = "StructField" ->
               visit_type(path_push(path, "StructField", item),
                          Loc("StructField"), inner.type)
          [] kind = "Trait" ->
               visit_trait(path_push(path, "Trait", item), inner)
          [] kind = "TypeAlias" ->
               LET p == path_push(path, "TypeAlias", item)
               IN  visit_type(p, Loc("TypeAlias"), inner.type)
                     \o visit_generics(p, inner.generics)
          [] kind = "TraitAlias" -> <<PanicCall("trait_alias")>>
          [] kind = "Union" ->
               visit_union(path_push(path, "Union", item), inner)
          [] kind = "Variant" ->
               visit_variant(path_push(path, "EnumVariant", item), inner)
          [] kind \in {"ExternCrate", "Impl", "Macro", "Primitive", "ProcMacro"} ->
               <<>>

\* whether visit_item goes past its visibility check
is_visited(path, item, visibility_check) ==
    ~(visibility_check = "Default" /\ ~is_public(path, item))

\* Visitor::visit_item
visit_item(path, item, visibility_check) ==
    IF is_visited(path, item, visibility_check)
    THEN visit_item_inner(path, item)
    ELSE <<>>

\* a slip: the impl of a trait that is not public is visited like any other
visit_impl_of_any_trait(path, item) ==
    LET imp == item.inner
    IN  IF imp.kind # "Impl" THEN <<PanicCall("should be passed an Impl item")>>
        ELSE IF IsSome(imp.blanket_impl) THEN <<>>
        ELSE (IF IsSome(imp.trait_)
              THEN check_rustdoc_path(path, Loc("ImplementedTrait"),
                                      Unwrap(imp.trait_))
              ELSE <<>>)
                \o visit_generics(path, imp.generics)
                \o visit_children(path, imp.items)

\* Visitor::visit_impl
visit_impl(path, item) ==
    LET imp == item.inner
    IN  IF imp.kind # "Impl" THEN <<PanicCall("should be passed an Impl item")>>
        ELSE IF IsSome(imp.blanket_impl) THEN <<>>
        ELSE IF /\ IsSome(imp.trait_)
                /\ in_index(Unwrap(imp.trait_).id)
                /\ ~is_public(path, index[Unwrap(imp.trait_).id])
        THEN <<>>
        ELSE (IF IsSome(imp.trait_)
              THEN check_rustdoc_path(path, Loc("ImplementedTrait"),
                                      Unwrap(imp.trait_))
              ELSE <<>>)
                \o visit_generics(path, imp.generics)
                \o visit_children(path, imp.items)

\* the path visit_impls gives an impl: an unnamed component, with the impl's
\* span or else the span of the type it belongs to
impl_path(path, impl_item) ==
    path_push_raw(path, "Impl", <<>>,
                  IF IsSome(impl_item.span) THEN impl_item.span
                  ELSE path_last_span(path))

----------------------------------------------------------------------------
(* Visitor: the calls that write the accumulators *)

\* the text of a compiled glob: WildMatch's Display (the catalog holds globs
\* in the form WildMatch::new keeps them)
glob_text(glob) == glob

\* a slip: a matching pattern is left in the unused set
remove_unused_approval_patterns_noop(unused, globs) == unused

\* a slip: a match empties the unused set
remove_unused_approval_patterns_all(unused, globs) ==
    IF globs = <<>> THEN unused ELSE {}

\* Visitor::remove_unused_approval_pattern, for each glob of a list
remove_unused_approval_patterns(unused, globs) ==
    unused \ {glob_text(globs[i]) : i \in 1..Len(globs)}

\* a slip: ambiguous matches do not count as uses of their patterns
after_check_keeps_ambiguous(errs, unused, path, what, name) ==
    LET v == allows_type(config, root_crate_name, name)
        unapproved == unapproved_external_type_ref(
                          name, what, path_to_string(path), path_last_span(path))
        duplicate == duplicate_approved(
                          name, what, path_to_string(path), path_last_span(path),
                          [i \in 1..Len(v.globs) |-> glob_text(v.globs[i])])
    IN  CASE v.kind \in {"RootMatch", "StandardLibrary"} ->
               [errors |-> errs, unused_approve |-> unused]
          [] v.kind = "WildcardMatch" ->
               [errors |-> errs,
                unused_approve |-> remove_unused_approval_patterns(unused, v.globs)]
          [] v.kind \in {"StandardLibraryNotAllowed", "NoMatchFound"} ->
               [errors |-> add(errs, unapproved), unused_approve |-> unused]
          [] v.kind = "DuplicateMatches" ->
               [errors |-> add(errs, duplicate), unused_approve |-> unused]

\* Visitor::check_allow_type: the accumulators after the call
after_check_allow_type(errs, unused, path, what, name) ==
    LET v == allows_type(config, root_crate_name, name)
        unapproved == unapproved_external_type_ref(
                          name, what, path_to_string(path), path_last_span(path))
        duplicate == duplicate_approved(
                          name, what, path_to_string(path), path_last_span(path),
                          [i \in 1..Len(v.globs) |-> glob_text(v.globs[i])])
    IN  CASE v.kind \in {"RootMatch", "StandardLibrary"} ->
               [errors |-> errs, unused_approve |-> unused]
          [] v.kind = "WildcardMatch" ->
               [errors |-> errs,
                unused_approve |-> remove_unused_approval_patterns(unused, v.globs)]
          [] v.kind \in {"StandardLibraryNotAllowed", "NoMatchFound"} ->
               [errors |-> add(errs, unapproved), unused_approve |-> unused]
          [] v.kind = "DuplicateMatches" ->
               [errors |-> add(errs, duplicate),
                unused_approve |-> remove_unused_approval_patterns(unused, v.globs)]

\* Visitor::check_external: the accumulators after the call
after_check_external(errs, unused, path, what, id) ==
    IF in_paths(id)
    THEN after_check_allow_type(errs, unused, path, what, type_name_of(id))
    ELSE IF ~in_root_crate(id)
    THEN [errors |-> add(errs, hidden_item(what, path_to_string(path),
                                           path_last_span(path))),
          unused_approve |-> unused]
    ELSE [errors |-> errs, unused_approve |-> unused]

RECURSIVE add_all(_, _)
\* errors.add for each finding of a set
add_all(errs, more) ==
    IF more = {} THEN errs
    ELSE LET e == CHOOSE e \in more : TRUE
         IN  add_all(add(errs, e), more \ {e})

\* the end of visit_all: every leftover pattern becomes a finding
report_unused(errs, unused) ==
    add_all(errs, {unused_approval_pattern(pattern) : pattern \in unused})

\* the history of the traversal
SeenItem(id, path, check) ==
    [h |-> "item", id |-> id, name |-> <<>>, path |-> path_to_string(path),
     what |-> Loc(check)]
SeenImpl(id, path) ==
    [h |-> "impl", id |-> id, name |-> <<>>, path |-> path_to_string(path),
     what |-> NoLoc]
SeenRef(name, path, what) ==
    [h |-> "ref", id |-> RootId, name |-> name, path |-> path_to_string(path),
     what |-> what]

----------------------------------------------------------------------------
(* main: the two reports and the exit status *)

\* the characters U+0020 to U+007E in code-point order
Ascii ==
    <<" ", "!", "\"", "#", "$", "%", "&", "'", "(", ")", "*", "+", ",",
      "-", ".", "/", "0", "1", "2", "3", "4", "5", "6", "7", "8", "9",
      ":", ";", "<", "=", ">", "?", "@", "A", "B", "C", "D", "E", "F",
      "G", "H", "I", "J", "K", "L", "M", "N", "O", "P", "Q", "R", "S",
      "T", "U", "V", "W", "X", "Y", "Z", "[", "\\", "]", "^", "_",
      C_backtick, "a", "b", "c", "d", "e", "f", "g", "h", "i", "j",
      "k", "l", "m", "n", "o", "p", "q", "r", "s", "t", "u", "v", "w",
      "x", "y", "z", "{", "|", "}", "~">>

\* the byte of a character, as String's Ord compares it
byte_of(c) == 31 + (CHOOSE i \in 1..Len(Ascii) : Ascii[i] = c)

RECURSIVE string_less(_, _)
\* impl Ord for String: a < b
string_less(a, b) ==
    IF b = <<>> THEN FALSE
    ELSE IF a = <<>> THEN TRUE
    ELSE IF Head(a) = Head(b) THEN string_less(Tail(a), Tail(b))
    ELSE byte_of(Head(a)) < byte_of(Head(b))

RECURSIVE iter(_)
\* ValidationErrors::iter: the findings in ascending sort-key order
iter(set) ==
    IF set = {} THEN <<>>
    ELSE LET least == CHOOSE e \in set :
                          \A f \in set \ {e} : string_less(sort_key(e), sort_key(f))
         IN  <<least>> \o iter(set \ {least})

RECURSIVE sort(_)
\* Vec<String>::sort
sort(rows) ==
    IF rows = <<>> THEN <<>>
    ELSE LET least == CHOOSE i \in 1..Len(rows) :
                          \A j \in 1..Len(rows) : ~string_less(rows[j], rows[i])
         IN  <<rows[least]>>
               \o sort([k \in 1..(Len(rows) - 1) |->
                           IF k < least THEN rows[k] ELSE rows[k + 1]])

\* a slip: every finding is counted as an error
error_count_of_all(set) == Cardinality(set)

\* ValidationErrors::error_count
error_count(set) == Cardinality({e \in set : level(e) = "Error"})

\* ValidationErrors::warning_count
warning_count(set) == Cardinality({e \in set : level(e) = "Warning"})

\* a printed line: what prints it, the finding's level where it has one, and
\* its text
Line(line, lvl, text) == [line |-> line, level |-> lvl, text |-> text]

T_in ==
    <<"i", "n", " ">>
T_errors ==
    <<" ", "e", "r", "r", "o", "r", "s", ",", " ">>
T_warnings_emitted ==
    <<" ", "w", "a", "r", "n", "i", "n", "g", "s", " ", "e", "m", "i",
      "t", "t", "e", "d">>
T_header ==
    <<"|", " ", "C", "r", "a", "t", "e", " ", "|", " ", "T", "y", "p",
      "e", " ", "|", " ", "U", "s", "e", "d", " ", "I", "n", " ", "|">>
T_rule ==
    <<"|", " ", "-", "-", "-", " ", " ", " ", "|", " ", "-", "-", "-",
      " ", " ", "|", " ", "-", "-", "-", " ", " ", " ", " ", " ", "|">>
T_bar ==
    <<" ", "|", " ">>

\* ValidationError::subtext
subtext(e) ==
    IF e.kind \in {"FieldsStripped", "UnusedApprovalPattern"} THEN <<>>
    ELSE T_in \o what_display(e.what) \o <<" ", C_backtick>> \o e.in_what_type
           \o <<C_backtick>>

\* what pretty_print_errors prints for one finding: the level and headline
\* (of the headline the line keeps the type name), then, for a finding with a
\* location, the block of pretty_print_error_context around the subtext,
\* which is not printed when the file holds no such position
print_error(e, has_position) ==
    <<Line("headline", level(e), e.type_name)>>
        \o (IF IsSome(e.location) /\ has_position
            THEN <<Line("context", level(e), subtext(e))>>
            ELSE <<>>)

\* a slip: the summary line is printed for an empty set too
pretty_print_errors_always_summary(set, has_position) ==
    Flatten([i \in 1..Len(iter(set)) |-> print_error(iter(set)[i], has_position)])
        \o <<Line("summary", "None",
                  to_digits(error_count(set)) \o T_errors
                    \o to_digits(warning_count(set))
                    \o T_warnings_emitted)>>

\* ErrorPrinter::pretty_print_errors
pretty_print_errors(set, has_position) ==
    Flatten([i \in 1..Len(iter(set)) |-> print_error(iter(set)[i], has_position)])
        \o (IF set # {}
            THEN <<Line("summary", "None",
                        to_digits(error_count(set)) \o T_errors
                          \o to_digits(warning_count(set))
                          \o T_warnings_emitted)>>
            ELSE <<>>)

\* format!("| {} | {} | {}:{}:{} |", ..) of run_main
table_row(e) ==
    LET location == Unwrap(e.location)
    IN  <<"|", " ">> \o type_crate_name_of(e.type_name) \o T_bar \o e.type_name
          \o T_bar \o location.filename \o S_colon
          \o to_digits(location.begin[1]) \o S_colon
          \o to_digits(location.begin[2]) \o <<" ", "|">>

\* the findings run_main makes rows of, in iteration order
table_findings(set) ==
    SelectSeq(iter(set), LAMBDA e : e.kind = "UnapprovedExternalTypeRef")

\* whether run_main's `error.location().unwrap()` panics
table_panics(set) ==
    \E e \in set : e.kind = "UnapprovedExternalTypeRef" /\ ~IsSome(e.location)

\* what run_main prints for OutputFormat::MarkdownTable; the rows are printed
\* after the loop, so none is when the loop panics
markdown_table(set) ==
    <<Line("header", "None", T_header), Line("header", "None", T_rule)>>
        \o (IF table_panics(set) THEN <<>>
            ELSE LET rows == sort([i \in 1..Len(table_findings(set)) |->
                                      table_row(table_findings(set)[i])])
                 IN  [i \in 1..Len(rows) |-> Line("row", "None", rows[i])])

----------------------------------------------------------------------------
(* Bounds and input domains *)

\* the longest allow-list
MaxPatterns == 2

G_eStar == S_e \o S_sep \o <<"*">>
G_eFoo == S_e \o S_sep \o S_Foo
G_starFoo == <<"*">> \o S_sep \o S_Foo
G_stdStar == S_std \o S_sep \o <<"*">>
G_Foo == S_Foo

GlobCatalog == <<G_eStar, G_eFoo, G_starFoo, G_stdStar, G_Foo>>

RECURSIVE SeqsUpTo(_, _)
\* the sequences over S of length at most n
SeqsUpTo(S, n) ==
    IF n = 0 THEN {<<>>}
    ELSE LET shorter == SeqsUpTo(S, n - 1)
         IN  shorter \cup {Append(q, e) : q \in shorter, e \in S}

IndexLists(n) == SeqsUpTo(1..Len(GlobCatalog), n)

GlobsOf(ixs) == [i \in 1..Len(ixs) |-> GlobCatalog[ixs[i]]]

Config(alloc, core, std, globs) ==
    [allow_alloc |-> alloc, allow_core |-> core, allow_std |-> std,
     allowed_external_types |-> globs]

\* every setting of the booleans, every allow-list of at most MaxPatterns
\* entries in every order, repeated entries included
MatcherConfigs ==
    {Config(a, c, s, GlobsOf(ixs)) :
        a \in BOOLEAN, c \in BOOLEAN, s \in BOOLEAN, ixs \in IndexLists(MaxPatterns)}

MatcherRoots == {S_r, S_std, S_e}

MatcherTypeNames ==
    { S_r \o S_sep \o S_Foo,
      S_r,
      S_std \o S_sep \o S_Vec,
      S_std \o S_sep \o S_m \o S_sep \o S_Foo,
      S_std,
      S_core \o S_sep \o S_Foo,
      S_alloc \o S_sep \o S_Vec,
      S_e \o S_sep \o S_Foo,
      S_e \o S_sep \o S_m \o S_sep \o S_Foo,
      S_e \o S_sep \o S_Bar,
      S_o \o S_sep \o S_Foo,
      S_Foo,
      S_std \o S_x \o S_sep \o S_Foo,
      S_e \o <<":">> \o S_Foo }

NoVerdict == Verdict(FALSE, "none", <<>>, <<>>)

----------------------------------------------------------------------------
(* The matcher specification: allows_type on every input of the domains *)

MatcherInit ==
    /\ config \in MatcherConfigs
    /\ root_crate_name \in MatcherRoots
    /\ type_name = <<>>
    /\ verdict = NoVerdict
    /\ index = <<>>
    /\ paths = <<>>
    /\ errors = {}
    /\ unused_approve = {}
    /\ stack = <<>>
    /\ seen = {}
    /\ pc = "idle"
    /\ result = <<>>
    /\ output_format = <<>>
    /\ stdout = <<>>
    /\ exit_code = <<>>
    /\ contents = <<>>
    /\ error_span = <<>>
    /\ begin_end = <<>>

AllowsType ==
    /\ pc = "idle"
    /\ \E name \in MatcherTypeNames :
          /\ type_name' = name
          /\ verdict' = allows_type(config, root_crate_name, name)
    /\ UNCHANGED <<config, root_crate_name, index, paths, errors, unused_approve,
                   stack, seen, pc, result>>
    /\ UNCHANGED main_vars
    /\ UNCHANGED printer_vars

MatcherNext == AllowsType

MatcherSpec == MatcherInit /\ [][MatcherNext]_vars

\* allows_type has been called on type_name
Classified == verdict # NoVerdict

\* the leading `::`-separated segment of a name
LeadingSegment(name) == split_sep(name)[1]

BaseLibraries == {S_alloc, S_core, S_std}

\* the boolean of the configuration that gates a base library
Gate(cfg, lib) ==
    CASE lib = S_alloc -> cfg.allow_alloc
      [] lib = S_core -> cfg.allow_core
      [] lib = S_std -> cfg.allow_std

\* the positions of the allow-list entries that match a name
MatchingPositions(cfg, name) ==
    {i \in 1..Len(cfg.allowed_external_types) :
        glob_matches(cfg.allowed_external_types[i], name)}

\* the k-th smallest element of a set of positions
KthPosition(P, k) == CHOOSE i \in P : Cardinality({j \in P : j <= i}) = k

(* C1: a type name whose leading segment equals the root library name is   *)
(* classified RootMatch, whatever the three booleans and the allow-list.   *)
C1_RootIsRootMatch ==
    (Classified /\ LeadingSegment(type_name) = root_crate_name)
        => verdict = Verdict(TRUE, "RootMatch", <<>>, <<>>)

\* a root library named as a disallowed base library, with an allow-list
\* entry that matches the name as well
C1_Witness ==
    /\ Classified
    /\ LeadingSegment(type_name) = root_crate_name
    /\ root_crate_name = S_std
    /\ ~config.allow_std
    /\ MatchingPositions(config, type_name) # {}
    /\ verdict.kind = "RootMatch"

(* C2 as stated: a base-library name whose gating boolean is false is      *)
(* classified StandardLibraryNotAllowed for every root library name and    *)
(* every allow-list.                                                       *)
C2_AsStated ==
    (/\ Classified
     /\ LeadingSegment(type_name) \in BaseLibraries
     /\ ~Gate(config, LeadingSegment(type_name)))
        => verdict = Verdict(FALSE, "StandardLibraryNotAllowed",
                             LeadingSegment(type_name), <<>>)

(* C2 amended: a base-library name whose gating boolean is false is        *)
(* classified StandardLibraryNotAllowed for every allow-list and every     *)
(* root library name other than that base library's own name.              *)
C2_DisallowedBaseLibraryIsError ==
    (/\ Classified
     /\ LeadingSegment(type_name) \in BaseLibraries
     /\ LeadingSegment(type_name) # root_crate_name
     /\ ~Gate(config, LeadingSegment(type_name)))
        => verdict = Verdict(FALSE, "StandardLibraryNotAllowed",
                             LeadingSegment(type_name), <<>>)

\* a disallowed base-library name that an allow-list entry matches
C2_Witness ==
    /\ Classified
    /\ LeadingSegment(type_name) = S_std
    /\ root_crate_name # S_std
    /\ ~config.allow_std
    /\ MatchingPositions(config, type_name) # {}
    /\ verdict.kind = "StandardLibraryNotAllowed"

(* C3: for a name that is neither root nor base library, two or more       *)
(* matching allow-list entries (identical entries included) give           *)
(* DuplicateMatches carrying exactly the matching entries, in list order,  *)
(* and never a WildcardMatch.                                              *)
C3_AmbiguousIsDuplicateMatches ==
    LET P == MatchingPositions(config, type_name)
    IN  (/\ Classified
         /\ LeadingSegment(type_name) \notin BaseLibraries \cup {root_crate_name}
         /\ Cardinality(P) >= 2)
            => /\ ~verdict.ok
               /\ verdict.kind = "DuplicateMatches"
               /\ Len(verdict.globs) = Cardinality(P)
               /\ \A k \in 1..Cardinality(P) :
                     verdict.globs[k] =
                        config.allowed_external_types[KthPosition(P, k)]

\* two textually identical entries match the name
C3_Witness ==
    /\ Classified
    /\ verdict.kind = "DuplicateMatches"
    /\ Len(verdict.globs) = 2
    /\ verdict.globs[1] = verdict.globs[2]

----------------------------------------------------------------------------
(* The item graphs the visitor is run on: a library of items, of which the *)
(* crate root module lists a few.                                          *)

\* the most items the crate root module lists
MaxRootItems == 2

\* the longest traversal path the stack of the process has room for
MaxDepth == 6

S_S == <<"S">>
S_E == <<"E">>
S_PE == <<"P", "E">>
S_V == <<"V">>
S_W == <<"W">>
S_T == <<"T">>
S_a == <<"a">>
S_b == <<"b">>
S_g == <<"g">>
S_h == <<"h">>
S_PT == <<"P", "T">>
S_QT == <<"Q", "T">>
S_U == <<"U">>
S_tf == <<"t", "f">>
S_A == <<"A">>
S_K == <<"K">>
S_Tr == <<"T", "r">>
S_Bl == <<"B", "l">>
S_Un == <<"U", "n">>
S_u == <<"u">>
S_c == <<"c">>
S_d == <<"d">>
S_Baz == <<"B", "a", "z">>
S_IN == <<"I", "N">>
S_k == <<"k">>
S_w == <<"w">>
S_y == <<"y">>
S_n == <<"n">>
S_0 == <<"0">>
S_ST == <<"S", "T">>
S_Q == <<"Q">>
S_self == <<"s", "e", "l", "f">>

RootCrate == 0
ExternalCrate == 1

At(line) == Some(Span(S_lib_rs, line, 1))

T_eFoo == ResolvedPath(100, None)
T_eBar == ResolvedPath(101, None)
T_stdVec_eBar == ResolvedPath(102, Some(AngleBracketed(<<T_eBar>>)))
T_Pat == [t |-> "Pat"]
T_Infer == [t |-> "Infer"]

Function(inputs, output) ==
    [kind |-> "Function", sig |-> [inputs |-> inputs, output |-> output],
     generics |-> NoGenerics]

StructField(type) == [kind |-> "StructField", type |-> type]

Use(name, source, id) ==
    [kind |-> "Use", name |-> name, source |-> source, id |-> id]

Module(is_crate, items) ==
    [kind |-> "Module", is_crate |-> is_crate, items |-> items]

Trait(items) ==
    [kind |-> "Trait", generics |-> NoGenerics, bounds |-> <<>>,
     items |-> items]

Impl(blanket_impl, trait_, items) ==
    [kind |-> "Impl", blanket_impl |-> blanket_impl, trait_ |-> trait_,
     generics |-> NoGenerics, items |-> items]

AssocType(type) ==
    [kind |-> "AssocType", type |-> type, bounds |-> <<>>,
     generics |-> NoGenerics]

AssocConst(type) == [kind |-> "AssocConst", type |-> type]

\* the identifiers with an item summary only: items of other crates
PathTable ==
    (100 :> <<S_e, S_Foo>>) @@ (101 :> <<S_e, S_Bar>>)
        @@ (102 :> <<S_std, S_Vec>>) @@ (4 :> <<S_r, S_S>>)
        @@ (5 :> <<S_r, S_E>>) @@ (110 :> <<S_e, S_Baz>>)
        @@ (21 :> <<S_r, S_PT>>) @@ (22 :> <<S_r, S_QT>>)
        @@ (23 :> <<S_r, S_U>>) @@ (106 :> <<S_e, S_Tr>>)
        @@ (107 :> <<S_e, S_Bl>>)

\* the library of items; identifiers 103, 104 and 105 are in neither table,
\* and neither is 1101, the field of the copy 110 of an item of another crate
Library ==
    (1 :> Item(1, RootCrate, Some(S_f), At(1), "Public",
               Function(<<<<S_x, T_eFoo>>>>, None)))
    @@ (2 :> Item(2, RootCrate, Some(S_h), At(2), "Default",
               Function(<<<<S_x, T_eBar>>, <<S_y, T_Pat>>>>, None)))
    @@ (3 :> Item(3, RootCrate, Some(S_k), At(3), "Public",
               Function(<<<<S_x, T_stdVec_eBar>>>>, Some(T_eFoo))))
    @@ (4 :> Item(4, RootCrate, Some(S_S), At(4), "Public",
               [kind |-> "Struct", struct_kind |-> "Plain",
                fields |-> <<41, 42>>, has_stripped_fields |-> TRUE,
                generics |-> NoGenerics, impls |-> <<43>>]))
    @@ (41 :> Item(41, RootCrate, Some(S_a), At(41), "Public",
               StructField(T_eFoo)))
    @@ (42 :> Item(42, RootCrate, Some(S_b), At(42), "Default",
               StructField(T_eBar)))
    @@ (43 :> Item(43, RootCrate, None, None, "Default",
               [kind |-> "Impl", blanket_impl |-> None, trait_ |-> None,
                generics |-> NoGenerics, items |-> <<44>>]))
    @@ (44 :> Item(44, RootCrate, Some(S_m), At(44), "Public",
               Function(<<<<S_self, ResolvedPath(4, None)>>, <<S_y, T_eBar>>>>,
                        None)))
    @@ (5 :> Item(5, RootCrate, Some(S_E), At(5), "Public",
               [kind |-> "Enum", generics |-> NoGenerics, impls |-> <<>>,
                variants |-> <<51>>]))
    @@ (51 :> Item(51, RootCrate, Some(S_V), At(51), "Default",
               [kind |-> "Variant", variant_kind |-> "Tuple",
                fields |-> <<Some(52)>>, has_stripped_fields |-> FALSE]))
    @@ (52 :> Item(52, RootCrate, Some(S_0), At(52), "Default",
               StructField(T_eFoo)))
    @@ (6 :> Item(6, RootCrate, Some(S_PE), At(6), "Default",
               [kind |-> "Enum", generics |-> NoGenerics, impls |-> <<>>,
                variants |-> <<61>>]))
    @@ (61 :> Item(61, RootCrate, Some(S_W), At(61), "Default",
               [kind |-> "Variant", variant_kind |-> "Struct",
                fields |-> <<62>>, has_stripped_fields |-> FALSE]))
    @@ (62 :> Item(62, RootCrate, Some(S_w), At(62), "Default",
               StructField(T_eBar)))
    @@ (7 :> Item(7, RootCrate, None, At(7), "Public",
               Use(S_Foo, S_e \o S_sep \o S_Foo, Some(100))))
    @@ (8 :> Item(8, RootCrate, None, At(8), "Public",
               Use(S_Foo, S_hid \o S_sep \o S_Foo, Some(103))))
    @@ (9 :> Item(9, RootCrate, None, At(9), "Public",
               Use(S_Foo, S_m \o S_sep \o S_n \o S_sep \o S_Foo, Some(104))))
    @@ (10 :> Item(10, RootCrate, None, At(10), "Public",
               Use(S_Q, S_m \o S_sep \o S_S, Some(105))))
    @@ (11 :> Item(11, RootCrate, Some(S_m), At(11), "Public",
               Module(FALSE, <<111, 110, 9, 17>>)))
    @@ (111 :> Item(111, RootCrate, Some(S_g), At(111), "Public",
               Function(<<<<S_y, T_eBar>>>>, None)))
    @@ (110 :> Item(110, ExternalCrate, Some(S_Baz), At(110), "Public",
               [kind |-> "Struct", struct_kind |-> "Plain",
                fields |-> <<1101>>, has_stripped_fields |-> TRUE,
                generics |-> NoGenerics, impls |-> <<>>]))
    @@ (12 :> Item(12, RootCrate, None, At(12), "Public",
               Use(S_PE, S_PE, Some(6))))
    @@ (15 :> Item(15, RootCrate, Some(S_u), None, "Public",
               Function(<<<<S_x, T_eFoo>>>>, None)))
    @@ (16 :> Item(16, RootCrate, None, At(16), "Public",
               Use(S_Baz, S_e \o S_sep \o S_Baz, Some(110))))
    @@ (17 :> Item(17, RootCrate, None, At(17), "Public",
               Use(S_f, S_f, Some(1))))
    @@ (18 :> Item(18, RootCrate, None, At(18), "Public",
               Use(S_d, S_c, Some(19))))
    @@ (19 :> Item(19, RootCrate, Some(S_c), At(19), "Public",
               Module(FALSE, <<18>>)))
    @@ (20 :> Item(20, RootCrate, Some(S_IN), At(20), "Public",
               [kind |-> "Static", type |-> T_Infer]))
    @@ (21 :> Item(21, RootCrate, Some(S_PT), At(21), "Public",
               Trait(<<211>>)))
    @@ (211 :> Item(211, RootCrate, Some(S_tf), At(211), "Default",
               Function(<<<<S_x, T_eFoo>>>>, None)))
    @@ (22 :> Item(22, RootCrate, Some(S_QT), At(22), "Default",
               Trait(<<>>)))
    @@ (23 :> Item(23, RootCrate, Some(S_U), At(23), "Public",
               [kind |-> "Struct", struct_kind |-> "Unit",
                fields |-> <<>>, has_stripped_fields |-> FALSE,
                generics |-> NoGenerics, impls |-> <<231, 232, 233, 234>>]))
    @@ (231 :> Item(231, RootCrate, None, At(231), "Default",
               Impl(Some([t |-> "Generic"]),
                    Some(RustDocPath(107, Some(AngleBracketed(<<T_eFoo>>)))),
                    <<2311>>)))
    @@ (2311 :> Item(2311, RootCrate, Some(S_A), At(2311), "Default",
               AssocType(Some(T_eBar))))
    @@ (232 :> Item(232, RootCrate, None, At(232), "Default",
               Impl(None, Some(RustDocPath(22, None)), <<2321>>)))
    @@ (2321 :> Item(2321, RootCrate, Some(S_A), At(2321), "Default",
               AssocType(Some(T_eBar))))
    @@ (233 :> Item(233, RootCrate, None, At(233), "Default",
               Impl(None, Some(RustDocPath(21, None)), <<2331, 2332, 2333>>)))
    @@ (2331 :> Item(2331, RootCrate, Some(S_A), At(2331), "Default",
               AssocType(Some(T_eBar))))
    @@ (2332 :> Item(2332, RootCrate, Some(S_tf), At(2332), "Default",
               Function(<<<<S_x, T_eFoo>>>>, None)))
    @@ (2333 :> Item(2333, RootCrate, Some(S_K), At(2333), "Default",
               AssocConst(T_eBar)))
    @@ (234 :> Item(234, RootCrate, None, At(234), "Default",
               Impl(None,
                    Some(RustDocPath(106, Some(AngleBracketed(<<T_eFoo>>)))),
                    <<>>)))
    @@ (13 :> Item(13, RootCrate, Some(S_ST), At(13), "Public",
               [kind |-> "Static", type |-> T_Pat]))
    @@ (14 :> Item(14, RootCrate, Some(S_T), At(14), "Public",
               [kind |-> "Struct", struct_kind |-> "Tuple",
                fields |-> <<Some(140), None, Some(141)>>,
                has_stripped_fields |-> FALSE,
                generics |-> NoGenerics, impls |-> <<>>]))
    @@ (140 :> Item(140, RootCrate, Some(S_0), At(140), "Public",
               StructField(ResolvedPath(103, None))))
    @@ (24 :> Item(24, RootCrate, Some(S_Un), At(24), "Public",
               [kind |-> "Union", generics |-> NoGenerics,
                fields |-> <<241>>, impls |-> <<>>]))
    @@ (241 :> Item(241, RootCrate, Some(S_a), At(241), "Public",
               StructField(T_eFoo)))

\* the items the crate root module may list
TopIds ==
    {1, 2, 3, 4, 5, 6, 7, 8, 10, 11, 12, 13, 14, 15, 16, 19, 20, 21, 23, 24,
     110}

RECURSIVE Ascending(_, _)
\* the strictly ascending sequences over a set of numbers, of length <= n
Ascending(S, n) ==
    IF n = 0 THEN {<<>>}
    ELSE LET shorter == Ascending(S, n - 1)
         IN  shorter \cup
               UNION {{Append(q, e) :
                          e \in {x \in S : \A i \in 1..Len(q) : q[i] < x}} :
                      q \in shorter}

RECURSIVE NonDescending(_, _)
\* the non-descending sequences over a set of numbers, of length <= n
NonDescending(S, n) ==
    IF n = 0 THEN {<<>>}
    ELSE LET shorter == NonDescending(S, n - 1)
         IN  shorter \cup
               UNION {{Append(q, e) :
                          e \in {x \in S : \A i \in 1..Len(q) : q[i] <= x}} :
                      q \in shorter}

\* the index of a crate whose root module lists the given items
IndexOf(root_items) ==
    (RootId :> Item(RootId, RootCrate, Some(S_r), At(1), "Public",
                    Module(TRUE, root_items)))
        @@ Library

\* an index that lacks one of the items
IndexWithout(full, id) == [i \in DOMAIN full \ {id} |-> full[i]]

\* root item and the item the index lacks: a module's item, a struct's
\* public and private field, an enum's variant, a variant's field, the
\* variant field of a re-exported private enum, the variant of a private
\* enum, a trait's item, a union's field, a struct's impl, and an item of an
\* impl that is visited and of one that is skipped
MissingCatalog ==
    {<<11, 111>>, <<4, 41>>, <<4, 42>>, <<5, 51>>, <<5, 52>>, <<12, 62>>,
     <<6, 61>>, <<21, 211>>, <<24, 241>>, <<23, 233>>, <<23, 2331>>,
     <<23, 2311>>}

\* the indexes of the crates: every item present, or one of them missing
Indexes ==
    {IndexOf(items) : items \in Ascending(TopIds, MaxRootItems)}
        \cup {IndexWithout(IndexOf(<<m[1]>>), m[2]) : m \in MissingCatalog}

VisitorConfigs ==
    {Config(TRUE, TRUE, s, GlobsOf(ixs)) :
        s \in BOOLEAN, ixs \in NonDescending(1..Len(GlobCatalog), MaxPatterns)}

----------------------------------------------------------------------------
(* The visitor specification: Visitor::new, then visit_all call by call *)

\* Visitor::new
Init ==
    /\ config \in VisitorConfigs
    /\ root_crate_name = S_r
    /\ type_name = <<>>
    /\ verdict = NoVerdict
    /\ index \in Indexes
    /\ paths = PathTable
    /\ errors = {}
    /\ unused_approve =
          {glob_text(config.allowed_external_types[i]) :
              i \in 1..Len(config.allowed_external_types)}
    /\ stack = <<>>
    /\ seen = {}
    /\ pc = "new"
    /\ result = None
    /\ output_format = None
    /\ stdout = <<>>
    /\ exit_code = None
    /\ contents = <<>>
    /\ error_span = <<>>
    /\ begin_end = <<>>

\* visit_all: find the crate root module and queue the items it lists
Start ==
    /\ pc = "new"
    /\ LET crates == {id \in DOMAIN index :
                        /\ index[id].inner.kind = "Module"
                        /\ index[id].inner.is_crate}
       IN  IF crates = {}
           THEN /\ pc' = "failed"
                /\ stack' = <<>>
           ELSE \E id \in crates :
                  /\ pc' = "visiting"
                  /\ stack' = [i \in 1..Len(index[id].inner.items) |->
                                  ItemCall(path_new(root_crate_name),
                                           index[id].inner.items[i],
                                           "Default", FALSE)]
    /\ UNCHANGED <<config, root_crate_name, type_name, verdict, index, paths,
                   errors, unused_approve, seen, result>>
    /\ UNCHANGED main_vars
    /\ UNCHANGED printer_vars

\* a slip: a listed item that the index lacks is passed over
VisitItem_skips_missing ==
    /\ pc = "visiting"
    /\ stack # <<>>
    /\ Head(stack).op = "item"
    /\ LET call == Head(stack)
       IN  IF Len(call.path) > MaxDepth
           THEN /\ pc' = "overflow"
                /\ stack' = <<>>
                /\ seen' = seen
           ELSE IF ~in_index(call.id)
           THEN /\ pc' = pc
                /\ stack' = Tail(stack)
                /\ seen' = seen
           ELSE IF call.root_only /\ index[call.id].crate_id # root_crate_id
           THEN /\ pc' = pc
                /\ stack' = Tail(stack)
                /\ seen' = seen
           ELSE /\ pc' = pc
                /\ stack' = visit_item(call.path, index[call.id], call.check)
                               \o Tail(stack)
                /\ seen' = IF is_visited(call.path, index[call.id], call.check)
                           THEN seen \cup {SeenItem(call.id, call.path, call.check)}
                           ELSE seen
    /\ UNCHANGED <<config, root_crate_name, type_name, verdict, index, paths,
                   errors, unused_approve, result>>
    /\ UNCHANGED main_vars
    /\ UNCHANGED printer_vars

\* self.item(id)? and self.visit_item(path, item, check)?; a recursion deeper
\* than the stack has room for ends the process
VisitItem ==
    /\ pc = "visiting"
    /\ stack # <<>>
    /\ Head(stack).op = "item"
    /\ LET call == Head(stack)
       IN  IF Len(call.path) > MaxDepth
           THEN /\ pc' = "overflow"
                /\ stack' = <<>>
                /\ seen' = seen
           ELSE IF ~in_index(call.id)
           THEN /\ pc' = "failed"
                /\ stack' = <<>>
                /\ seen' = seen
           ELSE IF call.root_only /\ index[call.id].crate_id # root_crate_id
           THEN /\ pc' = pc
                /\ stack' = Tail(stack)
                /\ seen' = seen
           ELSE /\ pc' = pc
                /\ stack' = visit_item(call.path, index[call.id], call.check)
                               \o Tail(stack)
                /\ seen' = IF is_visited(call.path, index[call.id], call.check)
                           THEN seen \cup {SeenItem(call.id, call.path, call.check)}
                           ELSE seen
    /\ UNCHANGED <<config, root_crate_name, type_name, verdict, index, paths,
                   errors, unused_approve, result>>
    /\ UNCHANGED main_vars
    /\ UNCHANGED printer_vars

\* one round of visit_impls: self.item(id)? and self.visit_impl(impl_path, item)?
VisitImpl ==
    /\ pc = "visiting"
    /\ stack # <<>>
    /\ Head(stack).op = "impl"
    /\ LET call == Head(stack)
       IN  IF ~in_index(call.id)
           THEN /\ pc' = "failed"
                /\ stack' = <<>>
                /\ seen' = seen
           ELSE /\ pc' = pc
                /\ stack' = visit_impl(impl_path(call.path, index[call.id]),
                                       index[call.id])
                               \o Tail(stack)
                /\ seen' = seen \cup {SeenImpl(call.id, call.path)}
    /\ UNCHANGED <<config, root_crate_name, type_name, verdict, index, paths,
                   errors, unused_approve, result>>
    /\ UNCHANGED main_vars
    /\ UNCHANGED printer_vars

\* self.check_external(path, what, id)
CheckExternal ==
    /\ pc = "visiting"
    /\ stack # <<>>
    /\ Head(stack).op = "check_external"
    /\ LET call == Head(stack)
           after == after_check_external(errors, unused_approve, call.path,
                                         call.what, call.id)
       IN  /\ errors' = after.errors
           /\ unused_approve' = after.unused_approve
           /\ seen' = IF in_paths(call.id)
                      THEN seen \cup {SeenRef(type_name_of(call.id), call.path,
                                              call.what)}
                      ELSE seen
    /\ stack' = Tail(stack)
    /\ UNCHANGED <<config, root_crate_name, type_name, verdict, index, paths,
                   pc, result>>
    /\ UNCHANGED main_vars
    /\ UNCHANGED printer_vars

\* self.check_allow_type(path, ErrorLocation::ReExport, type_name)
CheckAllowType ==
    /\ pc = "visiting"
    /\ stack # <<>>
    /\ Head(stack).op = "check_allow_type"
    /\ LET call == Head(stack)
           after == after_check_allow_type(errors, unused_approve, call.path,
                                           call.what, call.name)
       IN  /\ errors' = after.errors
           /\ unused_approve' = after.unused_approve
           /\ seen' = seen \cup {SeenRef(call.name, call.path, call.what)}
    /\ stack' = Tail(stack)
    /\ UNCHANGED <<config, root_crate_name, type_name, verdict, index, paths,
                   pc, result>>
    /\ UNCHANGED main_vars
    /\ UNCHANGED printer_vars

\* self.add_error(error)
AddError ==
    /\ pc = "visiting"
    /\ stack # <<>>
    /\ Head(stack).op = "add_error"
    /\ errors' = add(errors, Head(stack).error)
    /\ stack' = Tail(stack)
    /\ UNCHANGED <<config, root_crate_name, type_name, verdict, index, paths,
                   unused_approve, seen, pc, result>>
    /\ UNCHANGED main_vars
    /\ UNCHANGED printer_vars

\* a slip: the panic is swallowed and the traversal goes on
Panic_goes_on ==
    /\ pc = "visiting"
    /\ stack # <<>>
    /\ Head(stack).op = "panic"
    /\ pc' = pc
    /\ stack' = Tail(stack)
    /\ UNCHANGED <<config, root_crate_name, type_name, verdict, index, paths,
                   errors, unused_approve, seen, result>>
    /\ UNCHANGED main_vars
    /\ UNCHANGED printer_vars

\* panic!: the process aborts, nothing is returned
Panic ==
    /\ pc = "visiting"
    /\ stack # <<>>
    /\ Head(stack).op = "panic"
    /\ pc' = "panicked"
    /\ stack' = <<>>
    /\ UNCHANGED <<config, root_crate_name, type_name, verdict, index, paths,
                   errors, unused_approve, seen, result>>
    /\ UNCHANGED main_vars
    /\ UNCHANGED printer_vars

\* the end of visit_all: the leftover patterns are reported and the error set
\* is handed to the caller
Finish ==
    /\ pc = "visiting"
    /\ stack = <<>>
    /\ result' = Some(report_unused(errors, unused_approve))
    /\ errors' = {}
    /\ unused_approve' = {}
    /\ pc' = "done"
    /\ UNCHANGED <<config, root_crate_name, type_name, verdict, index, paths,
                   stack, seen>>
    /\ UNCHANGED main_vars
    /\ UNCHANGED printer_vars

\* run_main past visit_all, and main: the report in the format asked for, and
\* the exit status
RunMain ==
    /\ pc = "done"
    /\ \E format \in {"Errors", "MarkdownTable"}, has_position \in BOOLEAN :
          /\ output_format' = Some(format)
          /\ IF format = "Errors"
             THEN /\ stdout' = pretty_print_errors(Unwrap(result), has_position)
                  /\ exit_code' = IF error_count(Unwrap(result)) > 0
                                  THEN Some(1) ELSE Some(0)
                  /\ pc' = "exited"
             ELSE /\ has_position
                  /\ stdout' = markdown_table(Unwrap(result))
                  /\ exit_code' = IF table_panics(Unwrap(result))
                                  THEN None ELSE Some(0)
                  /\ pc' = IF table_panics(Unwrap(result))
                           THEN "panicked" ELSE "exited"
    /\ UNCHANGED <<config, root_crate_name, type_name, verdict, index, paths,
                   errors, unused_approve, stack, seen, result>>
    /\ UNCHANGED printer_vars

\* main, when run_main returns Error::Failure: the error is printed
MainFailure ==
    /\ pc = "failed"
    /\ stdout' = <<Line("failure", "None", <<>>)>>
    /\ exit_code' = Some(2)
    /\ pc' = "exited"
    /\ UNCHANGED <<config, root_crate_name, type_name, verdict, index, paths,
                   errors, unused_approve, stack, seen, result, output_format>>
    /\ UNCHANGED printer_vars

Next ==
    \/ Start
    \/ VisitItem
    \/ VisitImpl
    \/ CheckExternal
    \/ CheckAllowType
    \/ AddError
    \/ Panic
    \/ Finish
    \/ RunMain
    \/ MainFailure

Spec == Init /\ [][Next]_vars

----------------------------------------------------------------------------
(* Claims about a whole run of visit_all *)

\* the error set visit_all has returned
Returned == IF IsSome(result) THEN Unwrap(result) ELSE {}

\* the classified type references met so far, and the items and impls visited
Refs == {h \in seen : h.h = "ref"}
VisitedItems == {h \in seen : h.h = "item"}
VisitedImpls == {h \in seen : h.h = "impl"}

\* the items the crate root module lists
RootItems == index[RootId].inner.items
RootLists(id) == \E i \in 1..Len(RootItems) : RootItems[i] = id

\* the configured patterns
Patterns == config.allowed_external_types

\* whether a name belongs to the root library, or to a base library
IsRootName(name) == LeadingSegment(name) = root_crate_name
IsBaseName(name) == LeadingSegment(name) \in BaseLibraries

\* the references that are settled by the allow-list
ListedRefs == {h \in Refs : ~IsRootName(h.name) /\ ~IsBaseName(h.name)}

\* the findings of one kind about one name
FindingsOf(kind, name) ==
    {e \in Returned : e.kind = kind /\ e.type_name = name}

IsPrefix(p, s) == Len(p) <= Len(s) /\ SubSeq(s, 1, Len(p)) = p

\* the path text of a child of a path
Child(path_string, name) == path_string \o S_sep \o name

(* C4: after a full visit_all run, every configured pattern that matched no *)
(* type reference met in the traversal has exactly one                      *)
(* UnusedApprovalPattern finding with its text in the returned error set.   *)
C4_AsStated ==
    pc = "done" =>
        \A i \in 1..Len(Patterns) :
            (\A h \in Refs : ~glob_matches(Patterns[i], h.name))
                => Cardinality(FindingsOf("UnusedApprovalPattern",
                                          Patterns[i])) = 1

(* C5, as stated: a configured pattern whose glob matches the name of some *)
(* type reference met in the traversal never appears as an                  *)
(* UnusedApprovalPattern finding in the result of visit_all.                *)
C5_AsStated ==
    pc = "done" =>
        \A i \in 1..Len(Patterns) :
            (\E h \in Refs : glob_matches(Patterns[i], h.name))
                => FindingsOf("UnusedApprovalPattern", Patterns[i]) = {}

(* C5, amended: a configured pattern whose glob matches the name of some    *)
(* met type reference whose leading segment is neither the root library     *)
(* nor a base library never appears as an UnusedApprovalPattern finding,    *)
(* whether it matched alone or together with other patterns.                *)
C5_ListedMatchIsNeverUnused ==
    pc = "done" =>
        \A i \in 1..Len(Patterns) :
            (\E h \in ListedRefs : glob_matches(Patterns[i], h.name))
                => FindingsOf("UnusedApprovalPattern", Patterns[i]) = {}

\* a pattern configured twice has matched, ambiguously with itself
C5_Witness ==
    /\ pc = "done"
    /\ Len(Patterns) = 2
    /\ Patterns[1] = Patterns[2]
    /\ \E e \in Returned :
          /\ e.kind = "DuplicateApproved"
          /\ e.duplicate = Patterns
    /\ \A e \in Returned : e.kind # "UnusedApprovalPattern"

\* the public items among those the crate root module lists
PublicRootItems ==
    {i \in 1..Len(RootItems) : index[RootItems[i]].visibility = "Public"}

\* the only public item of the root library is a function of one argument, of
\* a plain external type with a path-table entry, and the allow-list is empty
OneArgumentFunction(item) ==
    /\ item.inner.kind = "Function"
    /\ Len(item.inner.sig.inputs) = 1
    /\ item.inner.sig.output = None
    /\ item.inner.generics = NoGenerics
    /\ LET typ == item.inner.sig.inputs[1][2]
       IN  /\ typ.t = "ResolvedPath"
           /\ typ.path.args = None
           /\ in_paths(typ.path.id)
           /\ ~IsRootName(type_name_of(typ.path.id))
           /\ ~IsBaseName(type_name_of(typ.path.id))

ScenarioA ==
    /\ Patterns = <<>>
    /\ Cardinality(PublicRootItems) = 1
    /\ \A i \in PublicRootItems : OneArgumentFunction(index[RootItems[i]])

(* C6: when the only public item of the root library is a function with one *)
(* argument x of an external type that has a path-table entry, and the      *)
(* allow-list is empty, visit_all returns an error set with exactly one     *)
(* finding: an unapproved external reference to that type's name, located   *)
(* at "argument named x".                                                   *)
C6_ScenarioA ==
    ScenarioA =>
        /\ pc \in {"failed", "panicked", "exited"} => IsSome(result)
        /\ pc = "done" =>
              \A i \in PublicRootItems :
                  LET input == index[RootItems[i]].inner.sig.inputs[1]
                  IN  /\ Cardinality(Returned) = 1
                      /\ \A e \in Returned :
                            /\ e.kind = "UnapprovedExternalTypeRef"
                            /\ e.type_name = type_name_of(input[2].path.id)
                            /\ e.what.loc = "ArgumentNamed"
                            /\ e.what.name = input[1]

C6_Witness ==
    /\ ScenarioA
    /\ pc = "done"
    /\ Len(RootItems) = 2
    /\ \E e \in Returned :
          /\ e.type_name = S_e \o S_sep \o S_Foo
          /\ e.what.loc = "ArgumentNamed"
          /\ e.what.name = S_x

\* every met reference outside the root library is matched by exactly one
\* pattern, and every pattern matches some met reference
AllMatchedOnceAllUsed ==
    /\ \A h \in Refs :
          ~IsRootName(h.name)
              => Cardinality(MatchingPositions(config, h.name)) = 1
    /\ \A i \in 1..Len(Patterns) :
          \E h \in Refs : glob_matches(Patterns[i], h.name)

(* C7, as stated: when every external type reference met in the traversal  *)
(* is matched by exactly one configured pattern and every configured        *)
(* pattern matches some met reference, visit_all returns an empty error set. *)
C7_AsStated ==
    (pc = "done" /\ AllMatchedOnceAllUsed /\ Patterns # <<>>)
        => Returned = {}

\* the same, of the references the allow-list settles; and no met reference
\* is to a base library that its boolean forbids
ListedMatchedOnceAllUsed ==
    /\ \A h \in ListedRefs :
          Cardinality(MatchingPositions(config, h.name)) = 1
    /\ \A i \in 1..Len(Patterns) :
          \E h \in ListedRefs : glob_matches(Patterns[i], h.name)
    /\ \A h \in Refs :
          (IsBaseName(h.name) /\ ~IsRootName(h.name))
              => Gate(config, LeadingSegment(h.name))

(* C7, amended: when every met reference whose leading segment is neither  *)
(* the root library nor a base library is matched by exactly one configured *)
(* pattern, every configured pattern matches some such reference, and every *)
(* met base-library reference is to an allowed base library, the error set  *)
(* visit_all returns holds no unapproved-reference, no duplicate-approval   *)
(* and no unused-pattern finding; other warnings may remain.                *)
C7_NoReferenceOrPatternFindings ==
    (pc = "done" /\ ListedMatchedOnceAllUsed) =>
        \A e \in Returned :
            e.kind \notin {"UnapprovedExternalTypeRef", "DuplicateApproved",
                           "UnusedApprovalPattern"}

\* a run with a used pattern, an allowed base-library reference, and a warning
\* left in the set
C7_Witness ==
    /\ pc = "done"
    /\ ListedMatchedOnceAllUsed
    /\ Patterns # <<>>
    /\ \E h \in Refs : IsBaseName(h.name)
    /\ Returned # {}

\* whether a call waiting on the stack visits the item, or the impl, under
\* the path
ItemWaits(id, path_string) ==
    \E i \in 1..Len(stack) :
        /\ stack[i].op = "item"
        /\ stack[i].id = id
        /\ path_to_string(stack[i].path) = path_string

ImplWaits(id, path_string) ==
    \E i \in 1..Len(stack) :
        /\ stack[i].op = "impl"
        /\ stack[i].id = id
        /\ path_to_string(stack[i].path) = path_string

ErrorWaits(kind, name) ==
    \E i \in 1..Len(stack) :
        /\ stack[i].op = "add_error"
        /\ stack[i].error.kind = kind
        /\ stack[i].error.type_name = name

ItemVisited(id, path_string) ==
    \E h \in VisitedItems : h.id = id /\ h.path = path_string

ImplVisited(id, path_string) ==
    \E h \in VisitedImpls : h.id = id /\ h.path = path_string

\* the visited plain structs whose has_stripped_fields flag is set
StrippedStructVisits ==
    {h \in VisitedItems :
        /\ index[h.id].inner.kind = "Struct"
        /\ index[h.id].inner.struct_kind = "Plain"
        /\ index[h.id].inner.has_stripped_fields}

\* the positions of a list of identifiers whose items are in the index
Indexed(ids) == {i \in 1..Len(ids) : in_index(ids[i])}

(* C8: visiting a public plain struct whose has_stripped_fields flag is set *)
(* records exactly one FieldsStripped warning that names the struct's path,  *)
(* and the traversal goes on: each public field and each impl of the struct  *)
(* is still to be visited or has been visited, and the run that ends returns *)
(* the warning, once.                                                        *)
C8_StrippedStructWarnsAndGoesOn ==
    \A h \in StrippedStructVisits :
        LET strct == index[h.id].inner
            p == Child(h.path, Unwrap(index[h.id].name))
            warned == \E e \in errors :
                         e.kind = "FieldsStripped" /\ e.type_name = p
        IN  /\ pc = "visiting" =>
                  /\ warned \/ ErrorWaits("FieldsStripped", p)
                  /\ \A i \in Indexed(strct.fields) :
                        index[strct.fields[i]].visibility = "Public"
                            => \/ ItemVisited(strct.fields[i], p)
                               \/ ItemWaits(strct.fields[i], p)
                  /\ \A i \in 1..Len(strct.impls) :
                        \/ ImplVisited(strct.impls[i], p)
                        \/ ImplWaits(strct.impls[i], p)
            /\ pc = "done" =>
                  /\ Cardinality(FindingsOf("FieldsStripped", p)) = 1
                  /\ \A i \in Indexed(strct.fields) :
                        index[strct.fields[i]].visibility = "Public"
                            => ItemVisited(strct.fields[i], p)
                  /\ \A i \in 1..Len(strct.impls) :
                        ImplVisited(strct.impls[i], p)

\* the run has ended: the struct S was warned about, its public field, its
\* impl and the impl's method were visited
C8_Witness ==
    /\ pc = "done"
    /\ StrippedStructVisits # {}
    /\ FindingsOf("FieldsStripped", S_r \o S_sep \o S_S) # {}
    /\ ItemVisited(41, S_r \o S_sep \o S_S)
    /\ ImplVisited(43, S_r \o S_sep \o S_S)
    /\ \E h \in VisitedItems : h.id = 44

\* the enums of the index, and the enum that lists a variant
Enums == {id \in DOMAIN index : index[id].inner.kind = "Enum"}

ListsVariant(enum, id) ==
    \E i \in 1..Len(index[enum].inner.variants) :
        index[enum].inner.variants[i] = id

\* a visited re-export names the enum
ReExported(enum) ==
    \E h \in VisitedItems :
        /\ index[h.id].inner.kind = "Use"
        /\ index[h.id].inner.id = Some(enum)

\* the type references of the fields of a tuple or struct variant
FieldTypes(variant) ==
    LET ids == IF variant.variant_kind = "Tuple" THEN flatten_ids(variant.fields)
               ELSE IF variant.variant_kind = "Struct" THEN variant.fields
               ELSE <<>>
    IN  {<<Unwrap(index[ids[i]].name), index[ids[i]].inner.type>> :
            i \in Indexed(ids)}

(* C9: a default-visibility variant is visited, and the type references of  *)
(* its fields are classified, when its enum is visited as public; a variant  *)
(* of an enum that is neither public nor re-exported is never visited and    *)
(* no finding and no classified reference lies under it.                     *)
C9_VariantFollowsItsEnum ==
    /\ \A h \in VisitedItems :
          (index[h.id].inner.kind = "Enum" /\ pc = "done") =>
              \A i \in Indexed(index[h.id].inner.variants) :
                  LET v == index[h.id].inner.variants[i]
                      ep == Child(h.path, Unwrap(index[h.id].name))
                      vp == Child(ep, Unwrap(index[v].name))
                  IN  /\ ItemVisited(v, ep)
                      /\ \A f \in FieldTypes(index[v].inner) :
                            (f[2].t = "ResolvedPath" /\ in_paths(f[2].path.id))
                                => \E r \in Refs :
                                      /\ r.name = type_name_of(f[2].path.id)
                                      /\ r.path = Child(vp, f[1])
    /\ \A enum \in Enums :
          (index[enum].visibility # "Public" /\ ~ReExported(enum)) =>
              /\ \A h \in VisitedItems : ~ListsVariant(enum, h.id)
              /\ \A i \in Indexed(index[enum].inner.variants) :
                    LET vp == Child(Child(S_r, Unwrap(index[enum].name)),
                                    Unwrap(index[index[enum].inner.variants[i]].name))
                    IN  RootLists(enum) =>
                            /\ \A r \in Refs : ~IsPrefix(vp, r.path)
                            /\ \A e \in errors \cup Returned :
                                  ~IsPrefix(vp, e.in_what_type)

\* the root lists the public enum E and the private enum PE; E's variant and
\* the reference of its field were met, the run has ended
C9_Witness ==
    /\ pc = "done"
    /\ RootLists(5)
    /\ RootLists(6)
    /\ ItemVisited(51, S_r \o S_sep \o S_E)
    /\ \E r \in Refs : r.name = S_e \o S_sep \o S_Foo
    /\ ~ReExported(6)

\* the visited re-exports whose target is in neither table
HiddenReExports ==
    {h \in VisitedItems :
        /\ index[h.id].inner.kind = "Use"
        /\ IsSome(index[h.id].inner.id)
        /\ ~in_index(Unwrap(index[h.id].inner.id))
        /\ ~in_paths(Unwrap(index[h.id].inner.id))}

\* the names the items of the index bear
IndexedNames ==
    {Unwrap(index[id].name) : id \in {i \in DOMAIN index : IsSome(index[i].name)}}

\* the first segment of an import source that no indexed item bears, if any
Culprit(source) ==
    LET parts == split_sep(source)
    IN  IF \A i \in 1..Len(parts) : parts[i] \in IndexedNames THEN None
        ELSE Some(parts[CHOOSE i \in 1..Len(parts) :
                           /\ parts[i] \notin IndexedNames
                           /\ \A j \in 1..(i - 1) : parts[j] \in IndexedNames])

(* C10: for every visited re-export whose target is in neither the index    *)
(* nor the path table, the error set visit_all returns holds a HiddenModule  *)
(* warning for the re-exported name whose culprit is the first segment of    *)
(* the import source that no indexed item bears (none when every segment is  *)
(* borne by some item).                                                      *)
C10_AsStated ==
    pc = "done" =>
        \A h \in HiddenReExports :
            \E e \in FindingsOf("HiddenModule", index[h.id].inner.name) :
                e.hidden_module = Culprit(index[h.id].inner.source)

\* the error set as it stands: the one returned, or the one being filled
CurrentSet == IF IsSome(result) THEN Unwrap(result) ELSE errors

(* C11: the level of a finding is Error when it is an unapproved external   *)
(* reference (one for a disallowed base library included) and Warning for   *)
(* every other kind; error_count plus warning_count is the number of        *)
(* findings in the error set.                                               *)
C11_LevelsAndCounts ==
    /\ \A e \in CurrentSet :
          /\ e.kind = "UnapprovedExternalTypeRef" => level(e) = "Error"
          /\ e.kind \in {"FieldsStripped", "HiddenModule", "HiddenItem",
                         "UnusedApprovalPattern", "DuplicateApproved"}
                => level(e) = "Warning"
    /\ error_count(CurrentSet) + warning_count(CurrentSet)
          = Cardinality(CurrentSet)

\* a returned set with an unapproved reference to a disallowed base library,
\* an approval given twice and an unused pattern
C11_Witness ==
    /\ pc = "done"
    /\ \E e \in Returned :
          e.kind = "UnapprovedExternalTypeRef" /\ IsBaseName(e.type_name)
    /\ \E e \in Returned : e.kind = "DuplicateApproved"
    /\ error_count(Returned) >= 1
    /\ warning_count(Returned) >= 1

\* the returned error set holds a finding of Error level
HasErrorFinding == \E e \in Returned : level(e) = "Error"

(* C12, as stated: whenever the error set visit_all returned holds a        *)
(* finding of Error level the exit status is a failure, with either output  *)
(* format; when it holds warnings only, or nothing, the status is success.  *)
C12_AsStated ==
    (IsSome(output_format) /\ IsSome(result)) =>
        IF HasErrorFinding THEN exit_code # Some(0) ELSE exit_code = Some(0)

(* C12, amended: with the human errors report the exit status is failure    *)
(* exactly when the returned error set holds a finding of Error level, and  *)
(* success otherwise; with the tabular report a run that completes the      *)
(* report exits with success whatever the findings.                         *)
C12_ExitStatusByFormat ==
    (pc = "exited" /\ IsSome(output_format) /\ IsSome(result)) =>
        IF Unwrap(output_format) = "Errors"
        THEN exit_code = (IF HasErrorFinding THEN Some(1) ELSE Some(0))
        ELSE exit_code = Some(0)

\* a human report of a set with an error and a warning has exited with 1
C12_Witness ==
    /\ pc = "exited"
    /\ output_format = Some("Errors")
    /\ HasErrorFinding
    /\ \E e \in Returned : level(e) = "Warning"
    /\ exit_code = Some(1)

\* the texts of the printed lines of one sort, in printing order
Printed(line) ==
    LET lines == SelectSeq(stdout, LAMBDA l : l.line = line)
    IN  [i \in 1..Len(lines) |-> lines[i].text]

\* the unapproved external references of the returned error set
UnapprovedFindings ==
    {e \in Returned : e.kind = "UnapprovedExternalTypeRef"}

\* the row of a finding with a location
RowOf(e) ==
    <<"|", " ">> \o LeadingSegment(e.type_name) \o <<" ", "|", " ">>
        \o e.type_name \o <<" ", "|", " ">>
        \o Unwrap(e.location).filename \o <<":">>
        \o to_digits(Unwrap(e.location).begin[1]) \o <<":">>
        \o to_digits(Unwrap(e.location).begin[2]) \o <<" ", "|">>

(* C13, as stated: the tabular report prints, after the header, exactly one *)
(* row per unapproved external reference of the error set and no row for a  *)
(* finding of another kind; a row holds the leading segment of the type     *)
(* name, the full type name and file:line:col of the finding, and the rows  *)
(* are in ascending order of their text.                                    *)
C13_AsStated ==
    (output_format = Some("MarkdownTable") /\ IsSome(result)) =>
        LET rows == Printed("row")
        IN  /\ Printed("header") = <<T_header, T_rule>>
            /\ Len(rows) = Cardinality(UnapprovedFindings)
            /\ \A e \in UnapprovedFindings :
                  IsSome(e.location) =>
                      Cardinality({i \in 1..Len(rows) : rows[i] = RowOf(e)})
                          = Cardinality({f \in UnapprovedFindings :
                                            /\ IsSome(f.location)
                                            /\ RowOf(f) = RowOf(e)})
            /\ \A i \in 1..Len(rows) :
                  \E e \in UnapprovedFindings :
                      IsSome(e.location) /\ rows[i] = RowOf(e)
            /\ \A i, j \in 1..Len(rows) :
                  i < j => ~string_less(rows[j], rows[i])

(* C14: when the returned error set is empty the human report prints        *)
(* nothing, neither a headline nor the "errors, warnings emitted" summary   *)
(* line; the summary line is printed exactly when the set is not empty,     *)
(* once, as the last line, after a headline for every finding.              *)
C14_SummaryIffFindings ==
    (output_format = Some("Errors") /\ IsSome(result)) =>
        /\ Returned = {} => stdout = <<>>
        /\ Len(Printed("summary")) = (IF Returned = {} THEN 0 ELSE 1)
        /\ Len(Printed("headline")) = Cardinality(Returned)
        /\ Returned # {} =>
              /\ stdout[Len(stdout)].line = "summary"
              /\ stdout[Len(stdout)].text
                    = to_digits(Cardinality({e \in Returned : level(e) = "Error"}))
                        \o <<" ", "e", "r", "r", "o", "r", "s", ",", " ">>
                        \o to_digits(Cardinality({e \in Returned :
                                                     level(e) = "Warning"}))
                        \o <<" ", "w", "a", "r", "n", "i", "n", "g", "s", " ",
                             "e", "m", "i", "t", "t", "e", "d">>

\* a run whose every reference is allowed and whose every pattern is used has
\* printed an empty human report and exited with success
C14_Witness ==
    /\ pc = "exited"
    /\ output_format = Some("Errors")
    /\ Patterns # <<>>
    /\ Refs # {}
    /\ Returned = {}
    /\ stdout = <<>>
    /\ exit_code = Some(0)

\* the visited re-exports whose target another crate owns and the path table
\* names
ForeignReExports ==
    {h \in VisitedItems :
        /\ index[h.id].inner.kind = "Use"
        /\ IsSome(index[h.id].inner.id)
        /\ ~in_root_crate(Unwrap(index[h.id].inner.id))
        /\ in_paths(Unwrap(index[h.id].inner.id))}

\* the target of a visited re-export was classified at the re-export
ClassifiedAtReExport(h) ==
    \E ref \in Refs :
        /\ ref.name = type_name_of(Unwrap(index[h.id].inner.id))
        /\ ref.what = Loc("ReExport")
        /\ ref.path = Child(h.path, index[h.id].inner.name)

(* C15, as stated: after visit_all, for every visited re-export whose       *)
(* target is owned by a crate other than the root library and is in the     *)
(* path table, the target's full name was classified with location kind     *)
(* re-export, whether or not the target is also in the index; a target no  *)
(* pattern approves has an UnapprovedExternalTypeRef finding.               *)
C15_AsStated ==
    pc = "done" =>
        \A h \in ForeignReExports :
            /\ ClassifiedAtReExport(h)
            /\ LET name == type_name_of(Unwrap(index[h.id].inner.id))
               IN  allows_type(config, root_crate_name, name).kind
                       \in {"NoMatchFound", "StandardLibraryNotAllowed"} =>
                       \E e \in Returned :
                           /\ e.kind = "UnapprovedExternalTypeRef"
                           /\ e.type_name = name
                           /\ e.what = Loc("ReExport")

\* the visited re-exports whose target another crate owns
ForeignTargets ==
    {Unwrap(index[h.id].inner.id) :
        h \in {v \in VisitedItems :
                  /\ index[v.id].inner.kind = "Use"
                  /\ IsSome(index[v.id].inner.id)
                  /\ ~in_root_crate(Unwrap(index[v.id].inner.id))}}

\* the fields, variants and impls an indexed item lists
InnerItems(id) ==
    IF ~in_index(id) THEN {}
    ELSE LET inner == index[id].inner
             members(list) == {list[i] : i \in 1..Len(list)}
         IN  CASE inner.kind = "Struct" ->
                    (IF inner.struct_kind = "Tuple"
                     THEN members(flatten_ids(inner.fields))
                     ELSE members(inner.fields)) \cup members(inner.impls)
               [] inner.kind = "Enum" ->
                    members(inner.variants) \cup members(inner.impls)
               [] OTHER -> {}

(* C16, as stated: for a visited re-export whose target is owned by a crate *)
(* other than the root library, the target is never descended into: no      *)
(* field, variant or impl of the target is looked up in the index, neither  *)
(* done nor pending, and no finding is made inside the target.              *)
C16_AsStated ==
    \A t \in ForeignTargets :
        /\ \A i \in 1..Len(stack) :
              stack[i].op \in {"item", "impl"} => stack[i].id \notin InnerItems(t)
        /\ \A h \in VisitedItems \cup VisitedImpls : h.id \notin InnerItems(t)
        /\ in_index(t) => \A h \in VisitedItems : h.id # t

\* a module of the index, the crate root module included, lists the item
ModuleLists(id) ==
    \E mod \in DOMAIN index :
        /\ index[mod].inner.kind = "Module"
        /\ \E i \in 1..Len(index[mod].inner.items) :
              index[mod].inner.items[i] = id

(* C17, as stated: in the iteration over a module's items, the crate root   *)
(* module's included, a listed child is visited only if its owning crate is *)
(* the root library's; a listed child that another crate owns is never      *)
(* visited.                                                                 *)
C17_AsStated ==
    \A h \in VisitedItems :
        (h.what = Loc("Default") /\ ModuleLists(h.id)) =>
            index[h.id].crate_id = root_crate_id

\* the root-library items, modules apart, that a visited re-export targets
\* and a module lists
ReExportedListedItems ==
    {t \in DOMAIN index :
        /\ in_root_crate(t)
        /\ index[t].inner.kind # "Module"
        /\ ModuleLists(t)
        /\ \E h \in VisitedItems :
              /\ index[h.id].inner.kind = "Use"
              /\ index[h.id].inner.id = Some(t)}

\* the visits of an item, one for each path it was visited under
VisitsOf(t) == {h \in VisitedItems : h.id = t}

IsSuffix(p, s) ==
    Len(p) <= Len(s) /\ SubSeq(s, Len(s) - Len(p) + 1, Len(s)) = p

\* the findings about an argument of a function, under whatever path
ArgumentFindings(t, arg) ==
    {e \in CurrentSet :
        /\ e.kind = "UnapprovedExternalTypeRef"
        /\ e.what = ArgumentNamed(arg)
        /\ IsSuffix(S_sep \o Unwrap(index[t].name), e.in_what_type)}

(* C18, as stated: a root-library item that a public re-export targets and  *)
(* that a module lists is descended into at most once in a visit_all run,   *)
(* so each external reference of it has one finding, not two.               *)
C18_AsStated ==
    \A t \in ReExportedListedItems :
        /\ Cardinality(VisitsOf(t)) <= 1
        /\ index[t].inner.kind = "Function" =>
              \A i \in 1..Len(index[t].inner.sig.inputs) :
                  Cardinality(ArgumentFindings(
                      t, index[t].inner.sig.inputs[i][1])) <= 1

(* C19, as stated: for every finite item graph, one where a re-export's     *)
(* target is a root-library module that contains the re-export included,    *)
(* visit_all terminates: the nesting of visit_item calls stays within the   *)
(* graph's depth and never exhausts the stack.                              *)
C19_AsStated == pc # "overflow"

\* a type expression visit_type has no support for
IsUnsupported(typ) == typ.t \in {"Pat", "Infer"}

\* the visits of a static whose type is a pattern type or an inferred type
UnsupportedVisits ==
    {h \in VisitedItems :
        /\ index[h.id].inner.kind = "Static"
        /\ IsUnsupported(index[h.id].inner.type)}

\* the functions of the root module that are not public and take an argument
\* of a pattern type or an inferred type
PrunedUnsupported ==
    {id \in DOMAIN index :
        /\ RootLists(id)
        /\ index[id].inner.kind = "Function"
        /\ index[id].visibility # "Public"
        /\ \E i \in 1..Len(index[id].inner.sig.inputs) :
              IsUnsupported(index[id].inner.sig.inputs[i][2])}

(* C20: once a pattern type or an inferred type has been reached in a       *)
(* publicly visited item, the run aborts: the panic is the next step or has *)
(* happened, visit_all returns no error set, there is no finding for the    *)
(* item, and nothing is printed and no exit status of main is set, unlike   *)
(* in a run that produced findings; a run aborts in the traversal only so,  *)
(* and the same type in a pruned, non-public function is never reached.     *)
C20_UnsupportedTypeAborts ==
    /\ \A h \in UnsupportedVisits :
          /\ \/ pc = "visiting" /\ stack # <<>> /\ Head(stack).op = "panic"
             \/ pc = "panicked"
          /\ result = None
          /\ output_format = None /\ stdout = <<>> /\ exit_code = None
          /\ \A e \in errors :
                e.in_what_type # Child(h.path, Unwrap(index[h.id].name))
    /\ (pc = "panicked" /\ result = None) => UnsupportedVisits # {}
    /\ \A h \in VisitedItems : h.id \notin PrunedUnsupported
    /\ (pc = "exited" /\ IsSome(result)) => IsSome(exit_code)

\* a run that went past a pruned function with a pattern-typed argument and
\* then aborted at a public static of inferred type
C20_Witness ==
    /\ pc = "panicked"
    /\ result = None
    /\ PrunedUnsupported # {}
    /\ \E h \in UnsupportedVisits : index[h.id].inner.type.t = "Infer"
    /\ Len(RootItems) = 2
    /\ RootItems[1] \in PrunedUnsupported

\* the visited impls that visit_impl skips: blanket impls and impls of an
\* indexed trait that is not public
SkippedImpls ==
    {h \in VisitedImpls :
        LET imp == index[h.id].inner
        IN  \/ IsSome(imp.blanket_impl)
            \/ /\ IsSome(imp.trait_)
               /\ in_index(Unwrap(imp.trait_).id)
               /\ index[Unwrap(imp.trait_).id].visibility # "Public"}

\* the path text of what an impl under a path contains
ImplPath(path_string) == Child(path_string, <<>>)

\* the members of a list
Members(list) == {list[i] : i \in 1..Len(list)}

(* C21: an impl that is a blanket impl, or that implements an indexed trait *)
(* whose visibility is not public, is skipped entirely: its implemented     *)
(* trait is not classified, none of the items it contains is visited or     *)
(* waits to be, and no type bound in one of them is classified.             *)
C21_SkippedImplYieldsNothing ==
    \A h \in SkippedImpls :
        LET imp == index[h.id].inner
        IN  /\ \A ref \in Refs :
                  ~(/\ ref.what = Loc("ImplementedTrait")
                    /\ ref.path = ImplPath(h.path)
                    /\ in_paths(Unwrap(imp.trait_).id)
                    /\ ref.name = type_name_of(Unwrap(imp.trait_).id))
            /\ \A v \in VisitedItems : v.id \notin Members(imp.items)
            /\ \A i \in 1..Len(stack) :
                  stack[i].op = "item" => stack[i].id \notin Members(imp.items)
            /\ \A e \in CurrentSet :
                  /\ e.location # index[h.id].span
                  /\ \A c \in Members(imp.items) :
                        in_index(c) => e.location # index[c].span

\* a run over a public struct with a blanket impl and an impl of a private
\* trait, each holding an associated type bound to an external type, has
\* ended with findings from the struct's other impls only
C21_Witness ==
    /\ pc = "done"
    /\ \E h \in SkippedImpls : IsSome(index[h.id].inner.blanket_impl)
    /\ \E h \in SkippedImpls :
          /\ ~IsSome(index[h.id].inner.blanket_impl)
          /\ \E c \in Members(index[h.id].inner.items) :
                index[c].inner.kind = "AssocType"
    /\ \E e \in Returned : e.what = Loc("AssocType")

\* the visited impls that visit_impl does not skip
EnteredImpls == VisitedImpls \ SkippedImpls

\* an item was visited under the path of an impl
VisitedIn(h, c) ==
    \E v \in VisitedItems : v.id = c /\ v.path = ImplPath(h.path)

\* the implemented trait of an impl, when the path table names it, was
\* classified at the impl
TraitClassified(h) ==
    LET imp == index[h.id].inner
    IN  (IsSome(imp.trait_) /\ in_paths(Unwrap(imp.trait_).id)) =>
            \E ref \in Refs :
                /\ ref.what = Loc("ImplementedTrait")
                /\ ref.path = ImplPath(h.path)
                /\ ref.name = type_name_of(Unwrap(imp.trait_).id)

(* C22, as stated: after visit_all, for every impl that is not skipped the  *)
(* implemented trait was classified and every item the impl contains was    *)
(* visited, whatever the item's declared visibility.                        *)
C22_AsStated ==
    pc = "done" =>
        \A h \in EnteredImpls :
            /\ TraitClassified(h)
            /\ \A c \in Members(index[h.id].inner.items) : VisitedIn(h, c)

(* C22, amended: after visit_all, for every impl that is not skipped the    *)
(* implemented trait was classified, and an item the impl contains was      *)
(* visited exactly when it is declared public or is an associated type; a   *)
(* function or an associated constant of default visibility is pruned, its  *)
(* types unclassified.                                                      *)
C22_ImplItemsPassVisibilityCheck ==
    pc = "done" =>
        \A h \in EnteredImpls :
            /\ TraitClassified(h)
            /\ \A c \in Members(index[h.id].inner.items) :
                  VisitedIn(h, c) <=>
                      \/ index[c].visibility = "Public"
                      \/ index[c].inner.kind = "AssocType"

\* a finished run over an impl of a public trait: its associated type of
\* default visibility was visited and reported, its function of default
\* visibility was not visited
C22_Witness ==
    /\ pc = "done"
    /\ \E h \in EnteredImpls :
          /\ IsSome(index[h.id].inner.trait_)
          /\ \E c \in Members(index[h.id].inner.items) :
                /\ index[c].inner.kind = "AssocType"
                /\ index[c].visibility = "Default"
                /\ VisitedIn(h, c)
          /\ \E c \in Members(index[h.id].inner.items) :
                /\ index[c].inner.kind = "Function"
                /\ ~VisitedIn(h, c)
    /\ \E e \in Returned : e.what = Loc("AssocType")

\* the items of the index of one kind
ItemsOfKind(kind) == {id \in DOMAIN index : index[id].inner.kind = kind}

\* the contexts that promote an item of default visibility: a variant listed
\* by an enum, a field listed by a variant, an associated type listed by an
\* impl of a trait, an item listed by a trait
Promoted(c) ==
    \/ /\ index[c].inner.kind = "Variant"
       /\ \E e \in ItemsOfKind("Enum") : c \in Members(index[e].inner.variants)
    \/ /\ index[c].inner.kind = "StructField"
       /\ \E v \in ItemsOfKind("Variant") :
             c \in Members(IF index[v].inner.variant_kind = "Tuple"
                           THEN flatten_ids(index[v].inner.fields)
                           ELSE IF index[v].inner.variant_kind = "Struct"
                           THEN index[v].inner.fields
                           ELSE <<>>)
    \/ /\ index[c].inner.kind = "AssocType"
       /\ \E i \in ItemsOfKind("Impl") :
             IsSome(index[i].inner.trait_) /\ c \in Members(index[i].inner.items)
    \/ \E t \in ItemsOfKind("Trait") : c \in Members(index[t].inner.items)

\* the targets of the visited re-exports
ReExportTargets ==
    {Unwrap(index[h.id].inner.id) :
        h \in {v \in VisitedItems :
                  /\ index[v.id].inner.kind = "Use"
                  /\ IsSome(index[v.id].inner.id)}}

\* the items of default visibility that nothing promotes and no visited
\* re-export targets
PrunedItems ==
    {c \in DOMAIN index \ ReExportTargets :
        /\ index[c].visibility = "Default"
        /\ index[c].inner.kind # "Impl"
        /\ ~Promoted(c)}

(* C23: an item of default visibility that is in no promoted context and is *)
(* not the direct target of a re-export is pruned: it is never visited, so  *)
(* whatever was visited under the default check is declared public or       *)
(* promoted, and no finding is located in a pruned item.                    *)
C23_DefaultVisibilityIsPruned ==
    /\ \A v \in VisitedItems :
          v.what = Loc("Default") =>
              \/ index[v.id].visibility = "Public"
              \/ index[v.id].visibility = "Default" /\ Promoted(v.id)
    /\ \A c \in PrunedItems :
          /\ \A v \in VisitedItems : v.id # c
          /\ \A e \in CurrentSet :
                IsSome(index[c].span) => e.location # index[c].span

\* a finished run over a public struct: its public field of external type
\* has a finding, its private field of external type was pruned
C23_Witness ==
    /\ pc = "done"
    /\ \E v \in VisitedItems :
          /\ index[v.id].inner.kind = "Struct"
          /\ index[v.id].inner.struct_kind = "Plain"
          /\ \E c \in Members(index[v.id].inner.fields) \cap PrunedItems :
                /\ index[c].inner.kind = "StructField"
                /\ index[c].inner.type = T_eBar
          /\ \E c \in Members(index[v.id].inner.fields) :
                /\ index[c].visibility = "Public"
                /\ \E e \in Returned : e.location = index[c].span

\* the finding add_error is about to add, if one is
PendingError ==
    IF pc = "visiting" /\ stack # <<>> /\ Head(stack).op = "add_error"
    THEN {Head(stack).error}
    ELSE {}

\* what the sort key is said to be made of
KeyComponents(e) == <<e.location, e.type_name, e.what, e.in_what_type>>

(* C24, as stated: the sort key of a finding, of whatever kind, tells apart *)
(* any two findings that differ in source position, type name, location     *)
(* kind or enclosing path: a finding about to be added has a key different  *)
(* from that of every finding of the set that differs from it in one of     *)
(* these, so both are kept.                                                 *)
C24_AsStated ==
    \A e \in PendingError :
        \A f \in errors :
            KeyComponents(e) # KeyComponents(f) => sort_key(e) # sort_key(f)

\* the findings of the returned set that were constructed without a span
SpanlessFindings ==
    {e \in Returned :
        /\ e.kind \in {"UnapprovedExternalTypeRef", "HiddenModule",
                       "HiddenItem", "DuplicateApproved"}
        /\ e.location = None}

(* C25, as stated: a finding constructed without a source span is never     *)
(* fatal: it is in the returned error set, and with either output format    *)
(* the run completes its report and exits through main, the finding having  *)
(* its headline in the human report.                                        *)
C25_AsStated ==
    (IsSome(output_format) /\ SpanlessFindings # {}) =>
        /\ pc = "exited"
        /\ IsSome(exit_code)
        /\ output_format = Some("Errors") =>
              \A e \in SpanlessFindings :
                  \E i \in 1..Len(stdout) :
                      /\ stdout[i].line = "headline"
                      /\ stdout[i].text = e.type_name

\* the set holds one finding for each sort key, and iterating it yields every
\* finding once, in strictly ascending order of the keys
OneFindingPerKeyInOrder(set) ==
    LET order == iter(set)
    IN  /\ \A e, f \in set : sort_key(e) = sort_key(f) => e = f
        /\ Len(order) = Cardinality(set)
        /\ \A e \in set : \E i \in 1..Len(order) : order[i] = e
        /\ \A i, j \in 1..Len(order) :
              i < j => string_less(sort_key(order[i]), sort_key(order[j]))

\* one add: a finding whose key is present leaves the set as it is, another
\* one joins it and nothing leaves
AddKeepsTheFirst ==
    \A e \in PendingError :
        errors' = IF \E f \in errors : sort_key(f) = sort_key(e)
                  THEN errors
                  ELSE errors \cup {e}

(* C26: after any sequence of add operations the error set holds exactly    *)
(* one finding for each sort key added, the first one added with that key   *)
(* (adding a finding whose key is present leaves the set unchanged), and    *)
(* iterating the set yields the findings in strictly ascending order of     *)
(* their sort keys.                                                         *)
C26_FirstOfEachKeyInKeyOrder ==
    [][AddKeepsTheFirst /\ OneFindingPerKeyInOrder(CurrentSet')]_vars

\* a returned set of several findings where the warning for the re-export
\* Foo of the root is the one kept, the later one for the re-export Foo of
\* module m, of the same key, having been dropped
C26_Witness ==
    /\ pc = "done"
    /\ Cardinality(Returned) >= 2
    /\ \E v \in VisitedItems : v.id = 9
    /\ \E e \in Returned :
          e.kind = "HiddenModule" /\ e.in_what_type = Child(S_r, S_Foo)
    /\ \A e \in Returned :
          e.kind = "HiddenModule" => e.in_what_type = Child(S_r, S_Foo)

----------------------------------------------------------------------------
(* The printer specification: pretty_print_error_context on every text and
   span of the domains *)

C_newline == "\n"

MaxText == 4
MaxLine == 3
MaxCol == 3

\* the cached texts: ASCII bytes, so that every index is a character
\* boundary and Position::new refuses none below the length
Texts == UNION {[1..n -> {"a", C_newline}] : n \in 0..MaxText}

LineCols == (0..MaxLine) \X (0..MaxCol)

\* the spans of findings: the beginning is not after the end
Spans ==
    {[filename |-> S_lib_rs, begin |-> be[1], end |-> be[2]] :
        be \in {p \in LineCols \X LineCols :
                  \/ p[1][1] < p[2][1]
                  \/ p[1][1] = p[2][1] /\ p[1][2] <= p[2][2]}}

\* the loop of position_from_line_col from the byte of 0-based offset idx on,
\* with the loop's current line cl and current column cc
RECURSIVE position_scan(_, _, _, _, _)
position_scan(text, line_col, idx, cl, cc) ==
    IF idx >= Len(text) THEN None
    ELSE IF cl = line_col[1] /\ cc = line_col[2] THEN Some(idx)
    ELSE IF text[idx + 1] = C_newline
         THEN position_scan(text, line_col, idx + 1, cl + 1, 0)
         ELSE position_scan(text, line_col, idx + 1, cl, cc + 1)

\* ErrorPrinter::position_from_line_col: the byte offset, or None
position_from_line_col(text, line_col) == position_scan(text, line_col, 0, 1, 1)

PrinterInit ==
    /\ config = <<>>
    /\ root_crate_name = <<>>
    /\ type_name = <<>>
    /\ verdict = NoVerdict
    /\ index = <<>>
    /\ paths = <<>>
    /\ errors = {}
    /\ unused_approve = {}
    /\ stack = <<>>
    /\ seen = {}
    /\ pc = "context"
    /\ result = <<>>
    /\ output_format = <<>>
    /\ stdout = <<>>
    /\ exit_code = <<>>
    /\ contents \in Texts
    /\ error_span \in Spans
    /\ begin_end = None

\* ErrorPrinter::pretty_print_error_context: the two ends of the span are
\* located in the file's text, and the block is printed when the beginning
\* is found; when the file cannot be read a replacement block is printed
PrettyPrintErrorContext ==
    /\ pc = "context"
    /\ \E loaded \in BOOLEAN :
          IF loaded
          THEN LET begin == position_from_line_col(contents, error_span.begin)
                   end == position_from_line_col(contents, error_span.end)
               IN  /\ begin_end' = Some(<<begin, end>>)
                   /\ stdout' = IF IsSome(begin)
                                THEN <<Line("context", "None", <<>>)>>
                                ELSE <<>>
          ELSE /\ begin_end' = None
               /\ stdout' = <<Line("failed to load", "Error", <<>>)>>
    /\ pc' = "printed"
    /\ UNCHANGED <<config, root_crate_name, type_name, verdict, index, paths,
                   errors, unused_approve, stack, seen, result, output_format,
                   exit_code, contents, error_span>>

PrinterNext == PrettyPrintErrorContext

PrinterSpec == PrinterInit /\ [][PrinterNext]_vars

\* the 0-based offsets of the text's newline bytes
NewlineOffsets(text) == {i \in 0..(Len(text) - 1) : text[i + 1] = C_newline}

\* the text has a line of this 1-based number
HasLine(text, line) ==
    line >= 1 /\ Cardinality(NewlineOffsets(text)) >= line - 1

\* the offset of the first byte of the line: past the newline that ends the
\* line before it
LineStart(text, line) ==
    IF line = 1 THEN 0
    ELSE 1 + CHOOSE i \in NewlineOffsets(text) :
                Cardinality({j \in NewlineOffsets(text) : j < i}) = line - 2

\* the pair addresses a byte of the text: the column-th byte of the line-th
\* line, the newline that ends the line included
AddressesByte(text, line_col) ==
    /\ HasLine(text, line_col[1])
    /\ line_col[2] >= 1
    /\ LineStart(text, line_col[1]) + line_col[2] - 1 < Len(text)
    /\ \A i \in NewlineOffsets(text) :
          ~(/\ LineStart(text, line_col[1]) <= i
            /\ i < LineStart(text, line_col[1]) + line_col[2] - 1)

\* the located ends of the span, once the file has been read
Located == pc = "printed" /\ IsSome(begin_end)

(* C27: whenever the file has been read and an end of the span addresses an
   existing byte of the text, position_from_line_col has returned the offset
   of the line's first byte plus the column minus 1, on the first line and on
   every later line alike. *)
C27_AsStated ==
    Located =>
        /\ AddressesByte(contents, error_span.begin) =>
              Unwrap(begin_end)[1] =
                  Some(LineStart(contents, error_span.begin[1])
                         + error_span.begin[2] - 1)
        /\ AddressesByte(contents, error_span.end) =>
              Unwrap(begin_end)[2] =
                  Some(LineStart(contents, error_span.end[1])
                         + error_span.end[2] - 1)

\* the containment children an item lists: what its arm of visit_item, or
\* visit_impl, looks up in the index one after the other
ContainmentChildren(item) ==
    LET inner == item.inner
    IN  CASE inner.kind = "Module" -> Members(inner.items)
          [] inner.kind = "Struct" ->
               (CASE inner.struct_kind = "Unit" -> {}
                  [] inner.struct_kind = "Tuple" ->
                       Members(flatten_ids(inner.fields))
                  [] OTHER -> Members(inner.fields))
                 \cup Members(inner.impls)
          [] inner.kind = "Union" ->
               Members(inner.fields) \cup Members(inner.impls)
          [] inner.kind = "Enum" ->
               Members(inner.variants) \cup Members(inner.impls)
          [] inner.kind = "Variant" ->
               (CASE inner.variant_kind = "Plain" -> {}
                  [] inner.variant_kind = "Tuple" ->
                       Members(flatten_ids(inner.fields))
                  [] OTHER -> Members(inner.fields))
          [] inner.kind = "Trait" -> Members(inner.items)
          [] inner.kind = "Impl" -> Members(inner.items)
          [] OTHER -> {}

\* the items and impls whose children the traversal has set out to look up:
\* the crate root module, the visited items and the impls not skipped
Containers ==
    IF pc = "new" THEN {}
    ELSE {RootId} \cup {v.id : v \in VisitedItems} \cup {h.id : h \in EnteredImpls}

\* a child that some such container lists is absent from the index
MissingChildren ==
    UNION {ContainmentChildren(index[c]) \ DOMAIN index : c \in Containers}

\* main has printed the failure and nothing else, and exits with status 2
ExitedOnFailure ==
    /\ pc = "exited"
    /\ exit_code = Some(2)
    /\ stdout = <<Line("failure", "None", <<>>)>>

(* C28: a run in which a visited item, or an impl that is not skipped,      *)
(* lists a containment child absent from the index never completes: when it *)
(* has ended, and not in a panic of its own, visit_all has returned a       *)
(* failure and no error set, and main prints the failure alone, the         *)
(* findings collected so far being dropped.                                 *)
(* Nothing else makes visit_all fail: a run that has failed has a missing   *)
(* child, whatever findings it has made.                                    *)
C28_MissingChildAborts ==
    /\ (MissingChildren # {}
          /\ pc \notin {"new", "visiting", "panicked", "overflow"}) =>
          /\ result = None
          /\ pc = "failed" \/ ExitedOnFailure
    /\ (pc = "failed" \/ (pc = "exited" /\ exit_code = Some(2))) =>
          /\ result = None
          /\ MissingChildren # {}

C28_Witness ==
    /\ ExitedOnFailure
    /\ errors # {}
    /\ result = None
    /\ \E v \in VisitedItems :
          /\ index[v.id].inner.kind = "Struct"
          /\ 42 \in MissingChildren

\* the texts of the configured patterns
PatternTexts == {glob_text(Patterns[i]) : i \in 1..Len(Patterns)}

\* the step is the end of the traversal: every item the crate root module
\* lists has been visited and visit_all returns
LastStep == pc = "visiting" /\ stack = <<>> /\ pc' = "done"

\* the step classifies a type reference that the pattern matches
MatchedNow(pattern) ==
    /\ pc = "visiting"
    /\ stack # <<>>
    /\ Head(stack).op \in {"check_external", "check_allow_type"}
    /\ \E ref \in seen' \ seen : ref.h = "ref" /\ glob_matches(pattern, ref.name)

AdditiveStep ==
    /\ pc = "new" => errors = {} /\ unused_approve = PatternTexts
    /\ CurrentSet \subseteq CurrentSet'
    /\ ~LastStep =>
          /\ unused_approve' \subseteq unused_approve
          /\ \A pattern \in unused_approve \ unused_approve' : MatchedNow(pattern)
          /\ result' = result
          /\ \A e \in CurrentSet' \ CurrentSet : e.kind # "UnusedApprovalPattern"
    /\ LastStep =>
          /\ result = None
          /\ result' = Some(CurrentSet')
          /\ \A e \in CurrentSet' \ CurrentSet :
                /\ e.kind = "UnusedApprovalPattern"
                /\ e.type_name \in unused_approve

(* C29: the error set is empty at construction and no step removes a        *)
(* finding from it; the unused-approval set is the set of the configured    *)
(* pattern texts at construction and a step removes from it only patterns   *)
(* that match the type reference the step classifies; the leftover patterns *)
(* become UnusedApprovalPattern findings, and the error set is handed to    *)
(* the caller, only in the step that ends the traversal, when no item is    *)
(* left to visit.                                                           *)
C29_AccumulatorsAreAdditive == [][AdditiveStep]_vars

C29_Witness ==
    /\ pc = "done"
    /\ Cardinality(PatternTexts) = 2
    /\ \E e \in Returned : e.kind = "UnusedApprovalPattern"
    /\ \E e \in Returned : e.kind = "UnapprovedExternalTypeRef"
    /\ \E pattern \in PatternTexts :
          \A e \in Returned : e.kind = "UnusedApprovalPattern" => e.type_name # pattern

\* the impls that were visited past the two skips and whose implemented
\* trait is written with generic arguments
GenericTraitImpls ==
    {h \in EnteredImpls :
        /\ IsSome(index[h.id].inner.trait_)
        /\ IsSome(Unwrap(index[h.id].inner.trait_).args)}

(* C30, as stated: when an impl that is not skipped implements a trait      *)
(* written with generic arguments, the arguments are not visited: no type   *)
(* reference is classified as a generic argument under the impl's path, and *)
(* no finding is located at the impl as a generic argument.                 *)
C30_AsStated ==
    \A h \in GenericTraitImpls :
        /\ \A ref \in Refs :
              ref.path = ImplPath(h.path) => ref.what # Loc("GenericArg")
        /\ \A e \in CurrentSet :
              (e.in_what_type = ImplPath(h.path) /\ e.location = index[h.id].span)
                  => e.what # Loc("GenericArg")

====
